---- MODULE Spec2Model ----
(***************************************************************************)
(* The audio engine of src/App.tsx (component App): its lifecycle          *)
(* (start / stop / restartAudio), the graph built by connectNodes, and the *)
(* React effects that decide between a hot update and a full rebuild.      *)
(*                                                                         *)
(* Conventions.                                                            *)
(*  - One action is one browser task: an event handler or the continuation *)
(*    of an await, together with the React render and the effects that the *)
(*    state changes of that task cause.                                    *)
(*  - A handler is a closure of the render that created it.  The values a  *)
(*    closure captured are passed to the operators explicitly (isRec, c,   *)
(*    hasOut); refs (.current) are read from the current state.            *)
(*  - Every call of start() or restartAudio() gets a task id.  The context *)
(*    made by `new AudioContext`, the stream delivered by getUserMedia,    *)
(*    the source node, the MediaRecorder and the nodes created by          *)
(*    connectNodes in that call are all identified by the task id, so a    *)
(*    ref holds a task id, or Null.                                        *)
(*  - ctxState "closed" means close() has been called on the context, and  *)
(*    streamState "stopped" that stop() was called on every track.         *)
(***************************************************************************)
EXTENDS Integers, Sequences, FiniteSets, TLC

MaxTasks == 3        \* calls of start() / restartAudio() in one behaviour
MaxEdits == 1        \* changes of structural controls in one behaviour
MaxHotEdits == 1     \* changes of continuous controls in one behaviour
TickMs == 50         \* granularity of the passage of time
SettleDelayMs == 50  \* setTimeout(resolve, 50) in restartAudio

Tasks == 1..MaxTasks
Null == 0

InputDevices == {"default", "mic2"}
OutputDevices == {"default", "spk2"}
LatencyValues == {10, 20}
EffectFlags == {"noiseGateEnabled", "compressorEnabled", "delayEnabled", "reverbEnabled"}

(***************************************************************************)
(* The continuous controls.  Numbers are integers: gain, drive, postGain,  *)
(* delay time and feedback, pan, reverb mix, noise-gate release and the Q  *)
(* of a band in hundredths, compressor attack and release in milliseconds, *)
(* thresholds and band gains in dB, frequencies in Hz.                     *)
(***************************************************************************)
\* The value of a parameter of a node that was not created.
NoValue == -9999
\* new Float32Array(256)
CurveSize == 256
\* createScriptProcessor(256, 1, 1): the frames of a block.
BlockFrames == 256
\* new AudioContext({ sampleRate: 44100 })
SampleRate == 44100
\* The time constant of setTargetAtTime(1, ..., 0.01), in hundredths of a
\* second.
AttackTime == 1
\* BiquadFilterNode.Q of a filter whose Q was never assigned.
DefaultQ == 100

\* A band without q has q = 0 here: `if (band.q)` treats both alike.
initialEqBands ==
  <<[gain |-> 0, q |-> 0, freq |-> 60],
    [gain |-> 0, q |-> 100, freq |-> 250],
    [gain |-> 0, q |-> 100, freq |-> 1000],
    [gain |-> 0, q |-> 100, freq |-> 4000],
    [gain |-> 0, q |-> 0, freq |-> 10000]>>

presets ==
  [flat |-> initialEqBands,
   bassBoost |->
     <<[gain |-> 6, q |-> 0, freq |-> 60],
       [gain |-> 4, q |-> 100, freq |-> 250],
       [gain |-> 0, q |-> 100, freq |-> 1000],
       [gain |-> 0, q |-> 100, freq |-> 4000],
       [gain |-> 0, q |-> 0, freq |-> 10000]>>,
   vocalBoost |->
     <<[gain |-> -2, q |-> 0, freq |-> 60],
       [gain |-> -2, q |-> 100, freq |-> 250],
       [gain |-> 3, q |-> 150, freq |-> 1500],
       [gain |-> 4, q |-> 120, freq |-> 4000],
       [gain |-> 2, q |-> 0, freq |-> 10000]>>,
   trebleBoost |->
     <<[gain |-> 0, q |-> 0, freq |-> 60],
       [gain |-> 0, q |-> 100, freq |-> 250],
       [gain |-> 0, q |-> 100, freq |-> 1000],
       [gain |-> 2, q |-> 150, freq |-> 4000],
       [gain |-> 5, q |-> 0, freq |-> 10000]>>]

\* The sliders with a slip: the Feedback slider goes up to 1.
SliderValuesFeedbackToOne ==
  [gain |-> {100, 250}, drive |-> {0, 50}, postGain |-> {100, 150},
   compressorThreshold |-> {-24, -40}, compressorRatio |-> {12, 4},
   delayTime |-> {50, 25}, delayFeedback |-> {50, 100}, pan |-> {0, -100},
   noiseGateThreshold |-> {-50, -30}, noiseGateRelease |-> {25, 100},
   reverbMix |-> {50, 0, 100}]

\* The positions the sliders are moved to.
SliderValues ==
  [gain |-> {100, 250}, drive |-> {0, 50}, postGain |-> {100, 150},
   compressorThreshold |-> {-24, -40}, compressorRatio |-> {12, 4},
   delayTime |-> {50, 25}, delayFeedback |-> {50, 95}, pan |-> {0, -100},
   noiseGateThreshold |-> {-50, -30}, noiseGateRelease |-> {25, 100},
   reverbMix |-> {50, 0, 100}]

\* The calls of onBandChange: gain of any band, freq and q of a peaking band.
EqInputs ==
  {[index |-> 1, property |-> "gain", value |-> 6],
   [index |-> 3, property |-> "freq", value |-> 1500],
   [index |-> 3, property |-> "q", value |-> 150],
   [index |-> 5, property |-> "gain", value |-> -3]}

\* The numbers typed into the Q number input of a peaking band: 0.05, 1.5
\* and 25.
QTypedValues == {5, 150, 2500}

\* The presets chosen in the preset select.
PresetInputs == {"flat", "vocalBoost"}

\* The number of changes made in the equalizer panel alone.
MaxEqEdits == 3

\* The arrays of band objects ever made by the component: the initial one
\* and one for each handlePresetChange.
Gens == 1..((IF MaxEqEdits > MaxHotEdits THEN MaxEqEdits ELSE MaxHotEdits) + 1)

\* The arrays of band objects of the module-level `presets`, by the place
\* they have among the band arrays.
PresetGen == [flat |-> 0, bassBoost |-> -1, vocalBoost |-> -2, trebleBoost |-> -3]


\* The refs that hold nodes of the graph.
NodeRefNames ==
  {"gainNodeRef", "driveNodeRef", "analyserNodeRef", "eqNodesRef",
   "postGainNodeRef", "compressorNodeRef", "delayNodeRef", "feedbackNodeRef",
   "pannerNodeRef", "noiseGateNodeRef", "noiseGateAnalyserNodeRef",
   "scriptProcessorNodeRef", "reverbNodeRef", "reverbWetGainRef",
   "reverbDryGainRef"}

\* The stages of connectNodes, in the order of its statements.
StageOrder ==
  <<"noiseGate", "gain", "drive", "compressor", "eq", "postGain", "delay",
    "panner", "reverb", "analyser">>
NStages == Len(StageOrder)
\* The stage at which a statement of connectNodes is let throw: the final
\* mixer and reverb (createGain, createConvolver, createBuffer), which every
\* build executes.
FailStages == {9}

VARIABLES
  status,              \* useState<Status>
  isRecording,         \* useState(false)
  cfg,                 \* the controls: devices, latency, effect flags
  hasOutputSelection,  \* as set by enumerateDevices when the component mounts:
                       \* whether AudioContext.prototype has setSinkId
  playbackState,       \* navigator.mediaSession.playbackState
  audioContextRef, mediaStreamRef, sourceNodeRef, mediaRecorderRef,
  nodeRefs,            \* the node refs, by name
  ctxState,            \* every AudioContext ever made
  streamState,         \* every MediaStream ever delivered
  recState,            \* every MediaRecorder ever made
  graph,               \* what each connectNodes call created and connected
  tasks,               \* the start() / restartAudio() calls and where they are
  msClosure,           \* the render captured by the media-session handlers
  staleStarts,         \* starts that were in flight when stop() ran
  edits,               \* number of structural control changes so far
  nodeVals,            \* the parameter values of the nodes each build made
  noiseGateRef,        \* useRef(noiseGate)
  eqHeap,              \* the band objects of each eqBands array
  hotEdits,            \* number of continuous control changes so far
  analyserNode,        \* the analyserNode prop AudioVisualizer was rendered with
  db,                  \* the recordings database and the list loaded from it
  rec,                 \* recordedChunksRef, the recorder events and saves under way
  karaoke              \* karaokeRecordingStatus and the video player

vars ==
  <<status, isRecording, cfg, hasOutputSelection, playbackState,
    audioContextRef, mediaStreamRef, sourceNodeRef, mediaRecorderRef,
    nodeRefs, ctxState, streamState, recState, graph, tasks, msClosure,
    staleStarts, edits, nodeVals, noiseGateRef, eqHeap, hotEdits,
    analyserNode, db, rec, karaoke>>

InitCfg ==
  [selectedInput |-> "default", selectedOutput |-> "default", latency |-> 10,
   noiseGateEnabled |-> FALSE, compressorEnabled |-> FALSE,
   delayEnabled |-> FALSE, reverbEnabled |-> FALSE,
   gain |-> 100, drive |-> 0, postGain |-> 100,
   compressor |-> [threshold |-> -24, knee |-> 30, ratio |-> 12, attack |-> 3,
                   release |-> 250],
   delay |-> [time |-> 50, feedback |-> 50],
   panner |-> [pan |-> 0],
   noiseGate |-> [threshold |-> -50, release |-> 25],
   reverb |-> [mix |-> 50],
   eqBands |-> 1, currentPreset |-> "flat"]

\* The parameters of the nodes of a build, none of them created yet.
NoVals ==
  [gain |-> NoValue, curve |-> NoValue,
   compressor |-> [threshold |-> NoValue, knee |-> NoValue, ratio |-> NoValue,
                   attack |-> NoValue, release |-> NoValue],
   eq |-> <<>>, postGain |-> NoValue, delayTime |-> NoValue,
   feedback |-> NoValue, pan |-> NoValue, dry |-> NoValue, wet |-> NoValue,
   impulse |-> NoValue, gateTarget |-> NoValue, gateTime |-> NoValue]

\* The database before initDB: `let db` is undefined and the store is empty.
\* store: the records of the object store; keyGen: the last key the key
\* generator gave out; recordings: the list of the last loadRecordings;
\* pending: the loadRecordings calls that wait for their cursor;
\* log: the records in the order in which they were added; deleteCalls: the
\* ids deleteRecording was called with, in the order of the calls.
NoDb ==
  [open |-> FALSE, store |-> {}, keyGen |-> 0, recordings |-> <<>>,
   pending |-> 0, log |-> <<>>, deleteCalls |-> <<>>]

\* The number of recordings a run starts.
MaxSessions == 2

\* The recorder's side before any recording.  Recordings are numbered in
\* the order of their start(), and the data a recorder gathers for
\* recording n is written n.  chunks: recordedChunksRef; active: the
\* recording each recorder gathers data for, 0 for none; pending: the
\* recordings whose dataavailable and stop events are queued, oldest first;
\* saving: the blobs of the onstop handlers that await addRecording, oldest
\* first; sessions: the number of recordings started.
NoRec ==
  [chunks |-> <<>>, active |-> [t \in Tasks |-> 0], pending |-> <<>>,
   saving |-> <<>>, sessions |-> 0]

\* The number of videos loaded and of state changes the player reports.
MaxPlayerEvents == 4

\* karaokeRecordingStatus, the value of it that the player's onStateChange
\* callback was made with ("none" without a player), the state of the
\* player, and the number of loads and of state changes reported so far.
NoKaraoke == [status |-> "idle", closure |-> "none", player |-> "UNSTARTED", events |-> 0]

NoGraph == [ctx |-> Null, flags |-> {}, done |-> 0, spConnected |-> FALSE]
NoTask == [pc |-> "unused", kind |-> "none", c |-> InitCfg, hasOut |-> FALSE, settleLeft |-> 0]

\* The mutable world the engine functions read and write, as one record.
Eng ==
  [status |-> status, isRecording |-> isRecording, playbackState |-> playbackState,
   audioContextRef |-> audioContextRef, mediaStreamRef |-> mediaStreamRef,
   sourceNodeRef |-> sourceNodeRef, mediaRecorderRef |-> mediaRecorderRef,
   nodeRefs |-> nodeRefs, ctxState |-> ctxState, streamState |-> streamState,
   recState |-> recState, graph |-> graph, nodeVals |-> nodeVals,
   noiseGateRef |-> noiseGateRef, eqHeap |-> eqHeap, rec |-> rec]

SetEng(e) ==
  /\ status' = e.status
  /\ isRecording' = e.isRecording
  /\ playbackState' = e.playbackState
  /\ audioContextRef' = e.audioContextRef
  /\ mediaStreamRef' = e.mediaStreamRef
  /\ sourceNodeRef' = e.sourceNodeRef
  /\ mediaRecorderRef' = e.mediaRecorderRef
  /\ nodeRefs' = e.nodeRefs
  /\ ctxState' = e.ctxState
  /\ streamState' = e.streamState
  /\ recState' = e.recState
  /\ graph' = e.graph
  /\ nodeVals' = e.nodeVals
  /\ noiseGateRef' = e.noiseGateRef
  /\ eqHeap' = e.eqHeap
  /\ rec' = e.rec

\* The state after the first render, with the controls c.  The media-session
\* handlers are those of the first render, whose controls are the initial
\* ones.
InitWithDb(c, d) ==
  /\ status = "stopped"
  /\ isRecording = FALSE
  /\ cfg = c
  /\ hasOutputSelection \in BOOLEAN
  /\ playbackState = "none"
  /\ audioContextRef = Null
  /\ mediaStreamRef = Null
  /\ sourceNodeRef = Null
  /\ mediaRecorderRef = Null
  /\ nodeRefs = [r \in NodeRefNames |-> Null]
  /\ ctxState = [t \in Tasks |-> "none"]
  /\ streamState = [t \in Tasks |-> "none"]
  /\ recState = [t \in Tasks |-> "none"]
  /\ graph = [t \in Tasks |-> NoGraph]
  /\ tasks = [t \in Tasks |-> NoTask]
  /\ msClosure = [cfg |-> InitCfg, hasOutputSelection |-> hasOutputSelection,
                  isRecording |-> FALSE]
  /\ staleStarts = {}
  /\ edits = 0
  /\ nodeVals = [t \in Tasks |-> NoVals]
  /\ noiseGateRef = c.noiseGate
  /\ eqHeap = [g \in Gens \cup {PresetGen[name] : name \in DOMAIN presets} |->
                 IF g = 1 THEN initialEqBands
                 ELSE IF g \in Gens THEN <<>>
                 ELSE presets[CHOOSE name \in DOMAIN presets : PresetGen[name] = g]]
  /\ hotEdits = 0
  /\ analyserNode = Null
  /\ db = d
  /\ rec = NoRec
  /\ karaoke = NoKaraoke

\* The same before initDB has opened the database.
InitWith(c) == InitWithDb(c, NoDb)

Init == InitWith(InitCfg)

(***************************************************************************)
(* connectNodes: the stages, their refs, their nodes and their connections *)
(***************************************************************************)
FlagsOf(c) == {f \in EffectFlags : c[f]}

OptionalFlag(s) ==
  CASE s = "noiseGate" -> "noiseGateEnabled"
    [] s = "compressor" -> "compressorEnabled"
    [] s = "delay" -> "delayEnabled"
    [] s = "reverb" -> "reverbEnabled"
    [] OTHER -> "always"

\* The `if (xEnabled)` with a slip: the compressor is made unconditionally.
StageEnabledCompressorAlways(s, flags) ==
  OptionalFlag(s) = "always" \/ OptionalFlag(s) \in flags \/ s = "compressor"

\* The `if (xEnabled)` around an optional stage.
StageEnabled(s, flags) == OptionalFlag(s) = "always" \/ OptionalFlag(s) \in flags

\* A stage that executes at least one statement: the final mixer is created
\* whether or not the reverb is enabled.
StageRuns(s, flags) == StageEnabled(s, flags) \/ s = "reverb"

\* The refs a stage assigns.
StageRefs(s, flags) ==
  IF ~StageEnabled(s, flags) THEN {}
  ELSE CASE s = "noiseGate" -> {"noiseGateAnalyserNodeRef", "scriptProcessorNodeRef", "noiseGateNodeRef"}
         [] s = "gain" -> {"gainNodeRef"}
         [] s = "drive" -> {"driveNodeRef"}
         [] s = "compressor" -> {"compressorNodeRef"}
         [] s = "eq" -> {"eqNodesRef"}
         [] s = "postGain" -> {"postGainNodeRef"}
         [] s = "delay" -> {"delayNodeRef", "feedbackNodeRef"}
         [] s = "panner" -> {"pannerNodeRef"}
         [] s = "reverb" -> {"reverbDryGainRef", "reverbWetGainRef", "reverbNodeRef"}
         [] s = "analyser" -> {"analyserNodeRef"}

\* The nodes a stage creates.
StageNodes(s, flags) ==
  CASE s = "noiseGate" -> IF StageEnabled(s, flags)
                          THEN {"noiseGateAnalyser", "scriptProcessor", "noiseGate"} ELSE {}
    [] s = "gain" -> {"gain"}
    [] s = "drive" -> {"drive"}
    [] s = "compressor" -> IF StageEnabled(s, flags) THEN {"compressor"} ELSE {}
    [] s = "eq" -> {"eq_sub", "eq_bass", "eq_mid", "eq_upperMid", "eq_treble"}
    [] s = "postGain" -> {"postGain"}
    [] s = "delay" -> IF StageEnabled(s, flags) THEN {"delay", "feedback"} ELSE {}
    [] s = "panner" -> {"panner"}
    [] s = "reverb" -> {"finalMixer"} \cup
                       (IF StageEnabled(s, flags) THEN {"reverbDry", "reverbWet", "reverb"} ELSE {})
    [] s = "analyser" -> {"analyser"}

\* The connect() calls of a stage, given lastNode on entry.
StageEdges(s, flags, last) ==
  CASE s = "noiseGate" ->
         IF StageEnabled(s, flags)
         THEN {<<last, "noiseGateAnalyser">>, <<"noiseGateAnalyser", "scriptProcessor">>,
               <<"scriptProcessor", "destination">>, <<last, "noiseGate">>}
         ELSE {}
    [] s = "gain" -> {<<last, "gain">>}
    [] s = "drive" -> {<<last, "drive">>}
    [] s = "compressor" -> IF StageEnabled(s, flags) THEN {<<last, "compressor">>} ELSE {}
    [] s = "eq" -> {<<last, "eq_sub">>, <<"eq_sub", "eq_bass">>, <<"eq_bass", "eq_mid">>,
                    <<"eq_mid", "eq_upperMid">>, <<"eq_upperMid", "eq_treble">>}
    [] s = "postGain" -> {<<last, "postGain">>}
    [] s = "delay" ->
         IF StageEnabled(s, flags)
         THEN {<<last, "delay">>, <<"delay", "feedback">>, <<"feedback", "delay">>}
         ELSE {}
    [] s = "panner" -> {<<last, "panner">>}
    [] s = "reverb" ->
         IF StageEnabled(s, flags)
         THEN {<<last, "reverbDry">>, <<"reverbDry", "finalMixer">>, <<last, "reverb">>,
               <<"reverb", "reverbWet">>, <<"reverbWet", "finalMixer">>}
         ELSE {<<last, "finalMixer">>}
    [] s = "analyser" -> {<<last, "analyser">>, <<last, "destination">>}

\* lastNode with a slip: the compressor stage does not advance lastNode.
StageLastKeepsDrive(s, flags, last) ==
  CASE s = "noiseGate" -> IF StageEnabled(s, flags) THEN "noiseGate" ELSE last
    [] s = "gain" -> "gain"
    [] s = "drive" -> "drive"
    [] s = "compressor" -> last
    [] s = "eq" -> "eq_treble"
    [] s = "postGain" -> "postGain"
    [] s = "delay" -> IF StageEnabled(s, flags) THEN "delay" ELSE last
    [] s = "panner" -> "panner"
    [] s = "reverb" -> "finalMixer"
    [] s = "analyser" -> last

\* lastNode on exit of a stage.
StageLast(s, flags, last) ==
  CASE s = "noiseGate" -> IF StageEnabled(s, flags) THEN "noiseGate" ELSE last
    [] s = "gain" -> "gain"
    [] s = "drive" -> "drive"
    [] s = "compressor" -> IF StageEnabled(s, flags) THEN "compressor" ELSE last
    [] s = "eq" -> "eq_treble"
    [] s = "postGain" -> "postGain"
    [] s = "delay" -> IF StageEnabled(s, flags) THEN "delay" ELSE last
    [] s = "panner" -> "panner"
    [] s = "reverb" -> "finalMixer"
    [] s = "analyser" -> last

\* lastNode after the first n stages.
RECURSIVE LastAfter(_, _)
LastAfter(flags, n) ==
  IF n = 0 THEN "source"
  ELSE StageLast(StageOrder[n], flags, LastAfter(flags, n - 1))

\* Everything the first n stages connected / created.
BuiltEdges(flags, n) ==
  UNION {StageEdges(StageOrder[i], flags, LastAfter(flags, i - 1)) : i \in 1..n}
BuiltNodes(flags, n) ==
  UNION {StageNodes(StageOrder[i], flags) : i \in 1..n}

\* The curve that start and the drive effect compute from drive: every
\* sample is a function of k = drive * 50, which stands for the curve.
\* A slip: the effect takes k = drive * 25.
makeCurveHalfDrive(drive) == drive * 25

makeCurve(drive) == drive * 50

\* The stage values with a slip: the reverb stage leaves the dry gain at 1.
StageValsDryFull(s, c, bands, v) ==
  CASE s = "gain" -> [v EXCEPT !.gain = c.gain]
    [] s = "drive" -> [v EXCEPT !.curve = makeCurve(c.drive)]
    [] s = "compressor" -> [v EXCEPT !.compressor = c.compressor]
    [] s = "eq" ->
         [v EXCEPT !.eq = [i \in 1..Len(bands) |->
                             [gain |-> bands[i].gain, frequency |-> bands[i].freq,
                              Q |-> IF bands[i].q # 0 THEN bands[i].q ELSE DefaultQ]]]
    [] s = "postGain" -> [v EXCEPT !.postGain = c.postGain]
    [] s = "delay" -> [v EXCEPT !.delayTime = c.delay.time, !.feedback = c.delay.feedback]
    [] s = "panner" -> [v EXCEPT !.pan = c.panner.pan]
    [] s = "reverb" -> [v EXCEPT !.dry = 100, !.wet = c.reverb.mix]
    [] OTHER -> v

\* The parameter values a stage assigns to the nodes it creates, from the
\* controls c of the render and the band objects of its eqBands array.
StageVals(s, c, bands, v) ==
  CASE s = "gain" -> [v EXCEPT !.gain = c.gain]
    [] s = "drive" -> [v EXCEPT !.curve = makeCurve(c.drive)]
    [] s = "compressor" -> [v EXCEPT !.compressor = c.compressor]
    [] s = "eq" ->
         [v EXCEPT !.eq = [i \in 1..Len(bands) |->
                             [gain |-> bands[i].gain, frequency |-> bands[i].freq,
                              Q |-> IF bands[i].q # 0 THEN bands[i].q ELSE DefaultQ]]]
    [] s = "postGain" -> [v EXCEPT !.postGain = c.postGain]
    [] s = "delay" -> [v EXCEPT !.delayTime = c.delay.time, !.feedback = c.delay.feedback]
    [] s = "panner" -> [v EXCEPT !.pan = c.panner.pan]
    [] s = "reverb" -> [v EXCEPT !.dry = 100 - c.reverb.mix, !.wet = c.reverb.mix]
    [] OTHER -> v

\* The parameter values after the first n stages.
RECURSIVE ValsAfter(_, _, _, _)
ValsAfter(c, bands, flags, n) ==
  IF n = 0 THEN NoVals
  ELSE LET v == ValsAfter(c, bands, flags, n - 1)
       IN IF StageEnabled(StageOrder[n], flags)
          THEN StageVals(StageOrder[n], c, bands, v)
          ELSE v

\* The nodes and the live connections of the graph a connectNodes call made.
GraphNodes(g) == BuiltNodes(g.flags, g.done)
\* A slip: the analyser is connected to the destination as well.
GraphEdgesAnalyserToSink(g) ==
  {ed \in BuiltEdges(g.flags, g.done) : ed[1] = "scriptProcessor" => g.spConnected}
    \cup (IF g.done = NStages THEN {<<"analyser", "destination">>} ELSE {})

\* A slip: the feedback gain is connected to the panner as well.
GraphEdgesFeedbackToPanner(g) ==
  {ed \in BuiltEdges(g.flags, g.done) : ed[1] = "scriptProcessor" => g.spConnected}
    \cup (IF g.done = NStages /\ "delayEnabled" \in g.flags
          THEN {<<"feedback", "panner">>} ELSE {})

GraphEdges(g) ==
  {ed \in BuiltEdges(g.flags, g.done) : ed[1] = "scriptProcessor" => g.spConnected}

\* connectNodes with a slip: the filters are appended to the list that
\* eqNodesRef holds instead of replacing it.
connectNodesAppendsEq(e, t, c, failAt) ==
  IF e.audioContextRef = Null \/ e.sourceNodeRef = Null THEN e
  ELSE LET flags == FlagsOf(c)
           done == IF failAt = 0 THEN NStages ELSE failAt - 1
           assigned == UNION {StageRefs(StageOrder[i], flags) : i \in 1..done}
           held == IF e.nodeRefs["eqNodesRef"] # Null
                   THEN e.nodeVals[e.nodeRefs["eqNodesRef"]].eq ELSE <<>>
           vals == ValsAfter(c, e.eqHeap[c.eqBands], flags, done)
       IN [e EXCEPT
             !.nodeRefs = [r \in NodeRefNames |-> IF r \in assigned THEN t ELSE @[r]],
             !.graph = [@ EXCEPT ![t] =
                          [ctx |-> e.audioContextRef, flags |-> flags, done |-> done,
                           spConnected |-> "scriptProcessorNodeRef" \in assigned]],
             !.nodeVals = [@ EXCEPT ![t] =
                             [vals EXCEPT
                                !.eq = held \o @,
                                !.impulse = IF "reverbNodeRef" \in assigned
                                            THEN t ELSE NoValue]]]

\* connectNodes with a slip: a node ref that already holds a node is kept.
connectNodesReuse(e, t, c, failAt) ==
  IF e.audioContextRef = Null \/ e.sourceNodeRef = Null THEN e
  ELSE LET flags == FlagsOf(c)
           done == IF failAt = 0 THEN NStages ELSE failAt - 1
           assigned == UNION {StageRefs(StageOrder[i], flags) : i \in 1..done}
       IN [e EXCEPT
             !.nodeRefs = [r \in NodeRefNames |->
                             IF r \in assigned /\ @[r] = Null THEN t ELSE @[r]],
             !.graph = [@ EXCEPT ![t] =
                          [ctx |-> e.audioContextRef, flags |-> flags, done |-> done,
                           spConnected |-> "scriptProcessorNodeRef" \in assigned]],
             !.nodeVals = [@ EXCEPT ![t] =
                             [ValsAfter(c, e.eqHeap[c.eqBands], flags, done) EXCEPT
                                !.impulse = IF "reverbNodeRef" \in assigned
                                            THEN t ELSE NoValue]]]

\* connectNodes as called by start number t with the captured controls c.
\* failAt = 0: no statement throws; failAt = k: the first statement of stage
\* k throws, the stages before it have been executed.
connectNodes(e, t, c, failAt) ==
  IF e.audioContextRef = Null \/ e.sourceNodeRef = Null THEN e
  ELSE LET flags == FlagsOf(c)
           done == IF failAt = 0 THEN NStages ELSE failAt - 1
           assigned == UNION {StageRefs(StageOrder[i], flags) : i \in 1..done}
       IN [e EXCEPT
             !.nodeRefs = [r \in NodeRefNames |-> IF r \in assigned THEN t ELSE @[r]],
             !.graph = [@ EXCEPT ![t] =
                          [ctx |-> e.audioContextRef, flags |-> flags, done |-> done,
                           spConnected |-> "scriptProcessorNodeRef" \in assigned]],
             !.nodeVals = [@ EXCEPT ![t] =
                             [ValsAfter(c, e.eqHeap[c.eqBands], flags, done) EXCEPT
                                !.impulse = IF "reverbNodeRef" \in assigned
                                            THEN t ELSE NoValue]]]

(***************************************************************************)
(* stop and start                                                          *)
(***************************************************************************)
\* stop with a slip: the tracks are stopped but mediaStreamRef keeps the
\* stream, and the context is not closed.
stopKeepsHandles(e, isRec) ==
  LET r == e.mediaRecorderRef
      s == e.mediaStreamRef
      sp == e.nodeRefs["scriptProcessorNodeRef"]
  IN [e EXCEPT
        !.recState = IF isRec /\ r # Null THEN [@ EXCEPT ![r] = "inactive"] ELSE @,
        !.isRecording = IF isRec THEN FALSE ELSE @,
        !.streamState = IF s # Null THEN [@ EXCEPT ![s] = "stopped"] ELSE @,
        !.audioContextRef = Null,
        !.sourceNodeRef = Null,
        !.nodeRefs = [@ EXCEPT !["gainNodeRef"] = Null, !["driveNodeRef"] = Null,
                               !["analyserNodeRef"] = Null,
                               !["scriptProcessorNodeRef"] = Null],
        !.graph = IF sp # Null THEN [@ EXCEPT ![sp].spConnected = FALSE] ELSE @,
        !.status = "stopped",
        !.playbackState = "paused"]

\* A slip: stop() drops the graph before it stops the stream and closes the
\* context.
stopOrderGraphFirst(e, isRec) ==
  (IF isRec /\ e.mediaRecorderRef # Null THEN <<"recorder">> ELSE <<>>)
    \o (IF e.sourceNodeRef # Null THEN <<"graph">> ELSE <<>>)
    \o (IF e.mediaStreamRef # Null THEN <<"stream">> ELSE <<>>)
    \o (IF e.audioContextRef # Null THEN <<"context">> ELSE <<>>)

\* What the statements of stop() release, in their order: the recorder
\* (stopped only when recording), the tracks of the stream, the context, and
\* then the source node and the node refs of the graph.
stopOrder(e, isRec) ==
  (IF isRec /\ e.mediaRecorderRef # Null THEN <<"recorder">> ELSE <<>>)
    \o (IF e.mediaStreamRef # Null THEN <<"stream">> ELSE <<>>)
    \o (IF e.audioContextRef # Null THEN <<"context">> ELSE <<>>)
    \o (IF e.sourceNodeRef # Null THEN <<"graph">> ELSE <<>>)

\* mediaRecorderRef.current?.stop(): a recorder that is recording or paused
\* becomes inactive and queues the task that fires dataavailable and stop.
recorderStop(e, r) ==
  IF r # Null /\ e.recState[r] \in {"recording", "paused"}
  THEN [e.rec EXCEPT !.pending = Append(@, e.rec.active[r]), !.active[r] = 0]
  ELSE e.rec

\* `recordedChunksRef.current = []; mediaRecorderRef.current?.start()` with
\* an inactive recorder r, or none.
recorderStart(e, r) ==
  IF r # Null
  THEN [e.rec EXCEPT !.chunks = <<>>, !.sessions = @ + 1, !.active[r] = e.rec.sessions + 1]
  ELSE [e.rec EXCEPT !.chunks = <<>>]

\* stop() of a render in which isRecording had the value isRec.
\* MediaRecorder.stop() on an inactive recorder does nothing.
stop(e, isRec) ==
  LET r == e.mediaRecorderRef
      s == e.mediaStreamRef
      a == e.audioContextRef
      sp == e.nodeRefs["scriptProcessorNodeRef"]
  IN [e EXCEPT
        !.recState = IF isRec /\ r # Null THEN [@ EXCEPT ![r] = "inactive"] ELSE @,
        !.isRecording = IF isRec THEN FALSE ELSE @,
        !.streamState = IF s # Null THEN [@ EXCEPT ![s] = "stopped"] ELSE @,
        !.mediaStreamRef = Null,
        !.ctxState = IF a # Null THEN [@ EXCEPT ![a] = "closed"] ELSE @,
        !.audioContextRef = Null,
        !.sourceNodeRef = Null,
        !.nodeRefs = [@ EXCEPT !["gainNodeRef"] = Null, !["driveNodeRef"] = Null,
                               !["analyserNodeRef"] = Null,
                               !["scriptProcessorNodeRef"] = Null],
        !.graph = IF sp # Null THEN [@ EXCEPT ![sp].spConnected = FALSE] ELSE @,
        !.rec = IF isRec THEN recorderStop(e, r) ELSE @,
        !.status = "stopped",
        !.playbackState = "paused"]

\* start() up to its first await: the context is made, and either setSinkId
\* or getUserMedia is awaited.
startBegin(e, t, c, hasOut) ==
  [e |-> [e EXCEPT !.ctxState = [@ EXCEPT ![t] = "open"], !.audioContextRef = t],
   pc |-> IF hasOut /\ c.selectedOutput # "default" THEN "sink" ELSE "gum"]

\* start after setSinkId with a slip: a rejection sets 'stopped'.
startAfterSinkStops(e, ok) ==
  IF ok THEN [e |-> e, pc |-> "gum"]
  ELSE [e |-> [e EXCEPT !.status = "stopped"], pc |-> "failed"]

\* start() after `await setSinkId`.
startAfterSink(e, ok) ==
  IF ok THEN [e |-> e, pc |-> "gum"]
  ELSE [e |-> [e EXCEPT !.status = "error"], pc |-> "failed"]

\* What the rest of start() can meet: getUserMedia rejects, a statement of
\* connectNodes throws, `new MediaRecorder` throws, or nothing fails.
GumOutcomes ==
  {[res |-> r, failAt |-> 0] : r \in {"ok", "rejected", "recorderThrows"}}
    \cup {[res |-> "buildThrows", failAt |-> k] : k \in FailStages}

\* start() after `await getUserMedia`, to its end.
startAfterGum(e, t, c, outcome) ==
  IF outcome.res = "rejected"
  THEN [e |-> [e EXCEPT !.status = "error"], pc |-> "failed"]
  ELSE
    LET e1 == [e EXCEPT !.streamState = [@ EXCEPT ![t] = "live"], !.mediaStreamRef = t]
    IN IF e1.audioContextRef = Null
       THEN \* createMediaStreamSource on null: TypeError
            [e |-> [e1 EXCEPT !.status = "error"], pc |-> "failed"]
       ELSE
         LET e2 == [e1 EXCEPT !.sourceNodeRef = t]
             e3 == connectNodes(e2, t, c, outcome.failAt)
         IN IF outcome.res \in {"buildThrows", "recorderThrows"}
            THEN [e |-> [e3 EXCEPT !.status = "error"], pc |-> "failed"]
            ELSE [e |-> [e3 EXCEPT !.mediaRecorderRef = t,
                                   !.recState = [@ EXCEPT ![t] = "inactive"],
                                   !.status = "running",
                                   !.playbackState = "playing"],
                  pc |-> "done"]

(***************************************************************************)
(* Tasks, renders and the actions                                          *)
(***************************************************************************)
InFlight == {t \in Tasks : tasks[t].pc \in {"sink", "gum"}}
Settling == {t \in Tasks : tasks[t].pc = "settle"}
Unused == {t \in Tasks : tasks[t].pc = "unused"}
\* The id of the next call.
IsFresh(t) == t \in Unused /\ \A u \in Unused : t <= u

\* The effects that write a control into a node, run after the render with
\* the controls c that follows a task which left the engine as e.  An effect
\* runs when one of its deps differs from the render before, whose values
\* are those of the current state; the eqBands dep is a new array, which
\* either has new band objects or band objects with a new value.
hotEffects(e, c) ==
  LET statusChanged == e.status # status
      eqChanged == c.eqBands # cfg.eqBands \/ e.eqHeap # eqHeap
      bands == e.eqHeap[c.eqBands]
      ref(r) == e.nodeRefs[r]
      e1 == IF c.noiseGate # cfg.noiseGate THEN [e EXCEPT !.noiseGateRef = c.noiseGate] ELSE e
      e2 == IF (c.gain # cfg.gain \/ statusChanged)
                 /\ e.status = "running" /\ ref("gainNodeRef") # Null
            THEN [e1 EXCEPT !.nodeVals[ref("gainNodeRef")].gain = c.gain]
            ELSE e1
      e3 == IF (c.drive # cfg.drive \/ statusChanged)
                 /\ e.status = "running" /\ ref("driveNodeRef") # Null
            THEN [e2 EXCEPT !.nodeVals[ref("driveNodeRef")].curve = makeCurve(c.drive)]
            ELSE e2
      e4 == IF eqChanged /\ ref("eqNodesRef") # Null
            THEN [e3 EXCEPT !.nodeVals[ref("eqNodesRef")].eq =
                    [i \in DOMAIN @ |->
                       [gain |-> bands[i].gain, frequency |-> bands[i].freq,
                        Q |-> IF bands[i].q # 0 THEN bands[i].q ELSE @[i].Q]]]
            ELSE e3
      e5 == IF c.postGain # cfg.postGain /\ ref("postGainNodeRef") # Null
            THEN [e4 EXCEPT !.nodeVals[ref("postGainNodeRef")].postGain = c.postGain]
            ELSE e4
      e6 == IF c.compressor # cfg.compressor /\ ref("compressorNodeRef") # Null
            THEN [e5 EXCEPT !.nodeVals[ref("compressorNodeRef")].compressor = c.compressor]
            ELSE e5
      e7 == IF c.delay.time # cfg.delay.time /\ ref("delayNodeRef") # Null
            THEN [e6 EXCEPT !.nodeVals[ref("delayNodeRef")].delayTime = c.delay.time]
            ELSE e6
      e8 == IF c.delay.feedback # cfg.delay.feedback /\ ref("feedbackNodeRef") # Null
            THEN [e7 EXCEPT !.nodeVals[ref("feedbackNodeRef")].feedback = c.delay.feedback]
            ELSE e7
      e9 == IF c.panner # cfg.panner /\ ref("pannerNodeRef") # Null
            THEN [e8 EXCEPT !.nodeVals[ref("pannerNodeRef")].pan = c.panner.pan]
            ELSE e8
  IN IF c.reverb.mix # cfg.reverb.mix
          /\ ref("reverbDryGainRef") # Null /\ ref("reverbWetGainRef") # Null
     THEN [e9 EXCEPT !.nodeVals[ref("reverbDryGainRef")].dry = 100 - c.reverb.mix,
                     !.nodeVals[ref("reverbWetGainRef")].wet = c.reverb.mix]
     ELSE e9

\* A task that left the engine as e and the controls as newCfg changed the
\* state of the component, so that it renders again.
Rerenders(e, newCfg, newHasOut) ==
  \/ e.status # status
  \/ e.isRecording # isRecording
  \/ newCfg # cfg
  \/ newHasOut # hasOutputSelection
  \/ e.eqHeap # eqHeap

\* The render after a task: the media-session effect (deps [status])
\* re-registers its handlers, and so captures the new render, only when
\* status changed.
Render(e, newCfg, newHasOut) ==
  /\ SetEng(hotEffects(e, newCfg))
  /\ analyserNode' = IF Rerenders(e, newCfg, newHasOut)
                     THEN e.nodeRefs["analyserNodeRef"] ELSE analyserNode
  /\ UNCHANGED <<db, karaoke>>
  /\ cfg' = newCfg
  /\ hasOutputSelection' = newHasOut
  /\ msClosure' = IF e.status # status
                  THEN [cfg |-> newCfg, hasOutputSelection |-> newHasOut,
                        isRecording |-> e.isRecording]
                  ELSE msClosure

Finished(t, pc) == [tasks EXCEPT ![t] = [NoTask EXCEPT !.pc = pc, !.kind = tasks[t].kind]]

\* A call of start() from a render with controls c and hasOutputSelection
\* hasOut.
CallStart(c, hasOut) ==
  \E t \in Tasks :
    /\ IsFresh(t)
    /\ LET r == startBegin(Eng, t, c, hasOut)
       IN /\ Render(r.e, cfg, hasOutputSelection)
          /\ tasks' = [tasks EXCEPT ![t] =
                         [pc |-> r.pc, kind |-> "start", c |-> c, hasOut |-> hasOut,
                          settleLeft |-> 0]]
    /\ UNCHANGED <<staleStarts, edits, hotEdits>>

\* A call of stop() from a render in which isRecording was isRec.
CallStop(isRec) ==
  /\ Render(stop(Eng, isRec), cfg, hasOutputSelection)
  /\ staleStarts' = staleStarts \cup InFlight
  /\ UNCHANGED <<tasks, edits, hotEdits>>

\* handleStartStop, the round button.
handleStartStop ==
  IF status = "running" THEN CallStop(isRecording)
  ELSE CallStart(cfg, hasOutputSelection)

\* The media-session 'play' handler.
MediaSessionPlay ==
  /\ status # "running"
  /\ CallStart(msClosure.cfg, msClosure.hasOutputSelection)

\* The media-session 'pause' and 'stop' handlers.
MediaSessionPause ==
  /\ status = "running"
  /\ CallStop(msClosure.isRecording)

\* restartAudio with a slip: the status check is missing.
restartAudioUnchecked(c) ==
  \E t \in Tasks :
    /\ IsFresh(t)
    /\ Render(stop(Eng, isRecording), c, hasOutputSelection)
    /\ staleStarts' = staleStarts \cup InFlight
    /\ tasks' = [tasks EXCEPT ![t] =
                   [pc |-> "settle", kind |-> "restart", c |-> c,
                    hasOut |-> hasOutputSelection, settleLeft |-> SettleDelayMs]]
    /\ UNCHANGED hotEdits

\* restartAudio() of a render with controls c: only when that render's
\* status is 'running', stop(), then the settle delay, then start().
restartAudio(c) ==
  IF status = "running"
  THEN \E t \in Tasks :
         /\ IsFresh(t)
         /\ Render(stop(Eng, isRecording), c, hasOutputSelection)
         /\ staleStarts' = staleStarts \cup InFlight
         /\ tasks' = [tasks EXCEPT ![t] =
                        [pc |-> "settle", kind |-> "restart", c |-> c,
                         hasOut |-> hasOutputSelection, settleLeft |-> SettleDelayMs]]
         /\ UNCHANGED hotEdits
  ELSE /\ Render(Eng, c, hasOutputSelection)
       /\ UNCHANGED <<tasks, staleStarts, hotEdits>>

\* A control named in the deps of the two restart effects, [selectedInput,
\* selectedOutput, latency] and [compressorEnabled, delayEnabled,
\* noiseGateEnabled, reverbEnabled], gets a new value: the render with the
\* new value runs the effect, which calls restartAudio.
StructuralChange(newCfg) ==
  /\ edits < MaxEdits
  /\ edits' = edits + 1
  /\ restartAudio(newCfg)

SetSelectedInput ==
  \E d \in InputDevices \ {cfg.selectedInput} :
    StructuralChange([cfg EXCEPT !.selectedInput = d])

SetSelectedOutput ==
  /\ hasOutputSelection
  /\ \E d \in OutputDevices \ {cfg.selectedOutput} :
       StructuralChange([cfg EXCEPT !.selectedOutput = d])

SetLatency ==
  \E v \in LatencyValues \ {cfg.latency} :
    StructuralChange([cfg EXCEPT !.latency = v])

ToggleEffect ==
  \E f \in EffectFlags : StructuralChange([cfg EXCEPT ![f] = ~@])

\* Time passes while a restart waits for its timer.
Tick ==
  /\ \E t \in Settling : tasks[t].settleLeft > 0
  /\ tasks' = [t \in Tasks |->
                 IF t \in Settling
                 THEN [tasks[t] EXCEPT !.settleLeft = IF @ > TickMs THEN @ - TickMs ELSE 0]
                 ELSE tasks[t]]
  /\ UNCHANGED <<status, isRecording, cfg, hasOutputSelection, playbackState,
                 audioContextRef, mediaStreamRef, sourceNodeRef, mediaRecorderRef,
                 nodeRefs, ctxState, streamState, recState, graph, msClosure,
                 staleStarts, edits, nodeVals, noiseGateRef, eqHeap, hotEdits,
                 analyserNode, db, rec, karaoke>>

\* The start of a restart with a slip: the timer is not awaited.
RestartStartNoWait ==
  \E t \in Settling :
    /\ LET r == startBegin(Eng, t, tasks[t].c, tasks[t].hasOut)
       IN /\ Render(r.e, cfg, hasOutputSelection)
          /\ tasks' = [tasks EXCEPT ![t].pc = r.pc]
    /\ UNCHANGED <<staleStarts, edits, hotEdits>>

\* restartAudio after its timer: `await start()`.
RestartStart ==
  \E t \in Settling :
    /\ tasks[t].settleLeft = 0
    /\ LET r == startBegin(Eng, t, tasks[t].c, tasks[t].hasOut)
       IN /\ Render(r.e, cfg, hasOutputSelection)
          /\ tasks' = [tasks EXCEPT ![t].pc = r.pc]
    /\ UNCHANGED <<staleStarts, edits, hotEdits>>

\* setSinkId settles.
SinkSettles ==
  \E t \in Tasks, ok \in BOOLEAN :
    /\ tasks[t].pc = "sink"
    /\ LET r == startAfterSink(Eng, ok)
       IN /\ Render(r.e, cfg, hasOutputSelection)
          /\ tasks' = IF r.pc = "failed" THEN Finished(t, "failed")
                      ELSE [tasks EXCEPT ![t].pc = r.pc]
    /\ staleStarts' = IF ok THEN staleStarts ELSE staleStarts \ {t}
    /\ UNCHANGED <<edits, hotEdits>>

\* getUserMedia settles.
GumSettles ==
  \E t \in Tasks, outcome \in GumOutcomes :
    /\ tasks[t].pc = "gum"
    /\ outcome.failAt # 0 => StageRuns(StageOrder[outcome.failAt], FlagsOf(tasks[t].c))
    /\ LET r == startAfterGum(Eng, t, tasks[t].c, outcome)
       IN /\ Render(r.e, cfg, hasOutputSelection)
          /\ tasks' = Finished(t, r.pc)
    /\ staleStarts' = staleStarts \ {t}
    /\ UNCHANGED <<edits, hotEdits>>

\* handleRecord, the record button.  MediaRecorder.start() throws unless the
\* recorder is inactive, and the handler then ends after it has emptied
\* recordedChunksRef and before setIsRecording.
handleRecord ==
  /\ status = "running"
  /\ LET r == mediaRecorderRef
     IN IF isRecording
        THEN Render([Eng EXCEPT !.recState = IF r # Null THEN [@ EXCEPT ![r] = "inactive"] ELSE @,
                                !.rec = recorderStop(Eng, r),
                                !.isRecording = FALSE],
                    cfg, hasOutputSelection)
        ELSE IF r # Null /\ recState[r] # "inactive"
        THEN Render([Eng EXCEPT !.rec = [@ EXCEPT !.chunks = <<>>]], cfg, hasOutputSelection)
        ELSE /\ r # Null => rec.sessions < MaxSessions
             /\ Render([Eng EXCEPT !.recState = IF r # Null THEN [@ EXCEPT ![r] = "recording"] ELSE @,
                                   !.rec = recorderStart(Eng, r),
                                   !.isRecording = TRUE],
                       cfg, hasOutputSelection)
  /\ UNCHANGED <<tasks, staleStarts, edits, hotEdits>>

\* A render with a slip: after a continuous control changed, no effect runs.
HotChangeNoEffect(newCfg, newHeap) ==
  /\ hotEdits < MaxHotEdits
  /\ hotEdits' = hotEdits + 1
  /\ SetEng([Eng EXCEPT !.eqHeap = newHeap])
  /\ cfg' = newCfg
  /\ analyserNode' = nodeRefs["analyserNodeRef"]
  /\ UNCHANGED <<db, karaoke>>
  /\ UNCHANGED <<hasOutputSelection, msClosure, tasks, staleStarts, edits>>

\* A continuous control gets a new value: the render with the new value runs
\* the effects that have the control in their deps.
HotChangeWithin(max, newCfg, newHeap) ==
  /\ hotEdits < max
  /\ hotEdits' = hotEdits + 1
  /\ Render([Eng EXCEPT !.eqHeap = newHeap], newCfg, hasOutputSelection)
  /\ UNCHANGED <<tasks, staleStarts, edits>>

HotChange(newCfg, newHeap) == HotChangeWithin(MaxHotEdits, newCfg, newHeap)

SetGain ==
  \E v \in SliderValues.gain \ {cfg.gain} : HotChange([cfg EXCEPT !.gain = v], eqHeap)

SetDrive ==
  \E v \in SliderValues.drive \ {cfg.drive} : HotChange([cfg EXCEPT !.drive = v], eqHeap)

SetPostGain ==
  \E v \in SliderValues.postGain \ {cfg.postGain} :
    HotChange([cfg EXCEPT !.postGain = v], eqHeap)

\* The sliders of an optional effect are rendered only while its toggle is
\* on.  The compressor has sliders for threshold and ratio only.
SetCompressor ==
  /\ cfg.compressorEnabled
  /\ \/ \E v \in SliderValues.compressorThreshold \ {cfg.compressor.threshold} :
          HotChange([cfg EXCEPT !.compressor.threshold = v], eqHeap)
     \/ \E v \in SliderValues.compressorRatio \ {cfg.compressor.ratio} :
          HotChange([cfg EXCEPT !.compressor.ratio = v], eqHeap)

SetDelay ==
  /\ cfg.delayEnabled
  /\ \/ \E v \in SliderValues.delayTime \ {cfg.delay.time} :
          HotChange([cfg EXCEPT !.delay.time = v], eqHeap)
     \/ \E v \in SliderValues.delayFeedback \ {cfg.delay.feedback} :
          HotChange([cfg EXCEPT !.delay.feedback = v], eqHeap)

SetPanner ==
  \E v \in SliderValues.pan \ {cfg.panner.pan} :
    HotChange([cfg EXCEPT !.panner = [pan |-> v]], eqHeap)

SetNoiseGate ==
  /\ cfg.noiseGateEnabled
  /\ \/ \E v \in SliderValues.noiseGateThreshold \ {cfg.noiseGate.threshold} :
          HotChange([cfg EXCEPT !.noiseGate.threshold = v], eqHeap)
     \/ \E v \in SliderValues.noiseGateRelease \ {cfg.noiseGate.release} :
          HotChange([cfg EXCEPT !.noiseGate.release = v], eqHeap)

SetReverb ==
  /\ cfg.reverbEnabled
  /\ \E v \in SliderValues.reverbMix \ {cfg.reverb.mix} :
       HotChange([cfg EXCEPT !.reverb = [mix |-> v]], eqHeap)

\* handleEqBandChange: a new array of the same band objects, one of which
\* is assigned the value in place.
\* What handleEqBandChange(index, property, value) makes of the controls c
\* and the band arrays: the band object of the current array is assigned
\* in place, and currentPreset becomes 'custom'.
eqBandChange(c, heap, index, property, value) ==
  [cfg |-> [c EXCEPT !.currentPreset = "custom"],
   heap |-> [heap EXCEPT ![c.eqBands][index][property] = value]]

handleEqBandChange ==
  \E inp \in EqInputs :
    /\ eqHeap[cfg.eqBands][inp.index][inp.property] # inp.value
    /\ LET r == eqBandChange(cfg, eqHeap, inp.index, inp.property, inp.value)
       IN HotChange(r.cfg, r.heap)

\* Math.max(0.1, Math.min(20, val)) of the Q number input.
clampQ(val) ==
  LET m == IF val < 2000 THEN val ELSE 2000
  IN IF m > 10 THEN m ELSE 10

\* onChange of the Q number input of the mid band with the number typed:
\* the number is clamped and handed to onBandChange.
QNumberInputOf(typed) ==
  LET r == eqBandChange(cfg, eqHeap, 3, "q", clampQ(typed))
  IN HotChange(r.cfg, r.heap)

QNumberInput == \E typed \in QTypedValues : QNumberInputOf(typed)

\* handlePresetChange: a new array of new band objects, copied from the
\* preset.
\* The handler with a slip: setEqBands(presets[name]), without the copy.
presetChangeShared(c, heap, name, g) ==
  [cfg |-> [c EXCEPT !.eqBands = PresetGen[name], !.currentPreset = name],
   heap |-> heap]

\* What handlePresetChange(name) makes of the controls c and the band
\* arrays, g being the place of the new array: JSON.parse(JSON.stringify(
\* presets[name])) copies what the preset holds now.
presetChange(c, heap, name, g) ==
  [cfg |-> [c EXCEPT !.eqBands = g, !.currentPreset = name],
   heap |-> [heap EXCEPT ![g] = heap[PresetGen[name]]]]

handlePresetChange ==
  \E name \in PresetInputs, g \in Gens :
    /\ eqHeap[g] = <<>>
    /\ \A h \in Gens : eqHeap[h] = <<>> => g <= h
    /\ LET r == presetChange(cfg, eqHeap, name, g)
       IN HotChange(r.cfg, r.heap)

Next ==
  \/ handleStartStop
  \/ MediaSessionPlay
  \/ MediaSessionPause
  \/ SetSelectedInput
  \/ SetSelectedOutput
  \/ SetLatency
  \/ ToggleEffect
  \/ Tick
  \/ RestartStart
  \/ SinkSettles
  \/ GumSettles
  \/ handleRecord

Spec == Init /\ [][Next]_vars

(***************************************************************************)
(* The builds of every combination of the effect toggles.  While the       *)
(* engine is stopped a toggle or the output select only changes the        *)
(* control (restartAudio returns at its status check), so every            *)
(* combination is a state the stopped engine can be started from.          *)
(***************************************************************************)
WithFlags(c, fl) == [f \in DOMAIN c |-> IF f \in EffectFlags THEN f \in fl ELSE c[f]]

InitGraph ==
  \E fl \in SUBSET EffectFlags, o \in OutputDevices :
    /\ InitWith([WithFlags(InitCfg, fl) EXCEPT !.selectedOutput = o])
    /\ o # "default" => hasOutputSelection

NextGraph ==
  \/ handleStartStop
  \/ MediaSessionPlay
  \/ SinkSettles
  \/ GumSettles

SpecGraph == InitGraph /\ [][NextGraph]_vars

(***************************************************************************)
(* The continuous controls, moved while the engine is stopped, starting or *)
(* running, with no optional effect or with all of them.                   *)
(***************************************************************************)
HotFlagSets == {{}, EffectFlags}

InitHot == \E fl \in HotFlagSets : InitWith(WithFlags(InitCfg, fl))

NextHot ==
  \/ handleStartStop
  \/ MediaSessionPlay
  \/ GumSettles
  \/ SetGain
  \/ SetDrive
  \/ SetPostGain
  \/ SetCompressor
  \/ SetDelay
  \/ SetPanner
  \/ SetNoiseGate
  \/ SetReverb
  \/ handleEqBandChange
  \/ QNumberInput
  \/ handlePresetChange

SpecHot == InitHot /\ [][NextHot]_vars

(***************************************************************************)
(* Steps, as seen in a pair of states                                      *)
(***************************************************************************)
\* The await of start number t settles in this step.
Settles(t) == tasks[t].pc \in {"sink", "gum"} /\ tasks'[t].pc # tasks[t].pc
StartSucceeds(t) == tasks[t].pc = "gum" /\ tasks'[t].pc = "done"
StartFails(t) == tasks[t].pc \in {"sink", "gum"} /\ tasks'[t].pc = "failed"
\* start number t makes its context in this step.
StartBegins(t) == ctxState[t] = "none" /\ ctxState'[t] # "none"
\* restartAudio number t passes its status check in this step.
RestartBegins(t) == tasks[t].pc = "unused" /\ tasks'[t].pc = "settle"
\* stop() is called in this step.
StopStep ==
  \/ status = "running" /\ handleStartStop
  \/ MediaSessionPause
  \/ \E t \in Tasks : RestartBegins(t)
\* Nothing that start number t made is held by a ref.
HoldsNothingOf(t) ==
  /\ audioContextRef # t
  /\ mediaStreamRef # t
  /\ sourceNodeRef # t
  /\ mediaRecorderRef # t
  /\ \A r \in NodeRefNames : nodeRefs[r] # t
\* Nothing that start number t opened is still open.
LeftNothingOpen(t) == ctxState[t] # "open" /\ streamState[t] # "live"

(***************************************************************************)
(* C1  A start that was in flight when stop() ran is discarded when its    *)
(* await settles: nothing of it is installed or left open, and the state   *)
(* stays what it was.                                                      *)
(***************************************************************************)
C1_StaleStartDiscarded ==
  [][\A t \in staleStarts :
       Settles(t) =>
         /\ status' = status
         /\ mediaStreamRef' # t /\ sourceNodeRef' # t
         /\ \A r \in NodeRefNames : nodeRefs'[r] # t
         /\ graph'[t] = NoGraph
         /\ streamState'[t] # "live"]_vars

(***************************************************************************)
(* C2  The state starts as Stopped, and every change of state is Stopped   *)
(* to Running by a successful start, Running to Stopped by stop, to Error  *)
(* by a failed start, or Error to Stopped by stop.                         *)
(***************************************************************************)
C2_OnlyListedTransitions ==
  /\ status = "stopped"
  /\ [][status' # status =>
          \/ status = "stopped" /\ status' = "running" /\ \E t \in Tasks : StartSucceeds(t)
          \/ status = "running" /\ status' = "stopped" /\ StopStep
          \/ status' = "error" /\ \E t \in Tasks : StartFails(t)
          \/ status = "error" /\ status' = "stopped" /\ StopStep]_vars

\* C2 as amended: the transitions of C2, and Error to Running by a
\* successful start.
C2_Transitions ==
  /\ status = "stopped"
  /\ [][status' # status =>
          \/ status \in {"stopped", "error"} /\ status' = "running"
               /\ \E t \in Tasks : StartSucceeds(t)
          \/ status = "running" /\ status' = "stopped" /\ StopStep
          \/ status' = "error" /\ \E t \in Tasks : StartFails(t)
          \/ status = "error" /\ status' = "stopped" /\ StopStep]_vars

\* A start succeeded after another one had failed.
C2_Witness ==
  /\ status = "running"
  /\ \E t, u \in Tasks : tasks[t].pc = "failed" /\ tasks[u].pc = "done" /\ t < u
  /\ Unused = {} /\ InFlight = {}

(***************************************************************************)
(* C3  A start that fails leaves the state Error and nothing of it         *)
(* attached: no context, stream, source node or graph node that it made is *)
(* held or open.                                                           *)
(***************************************************************************)
C3_FailedStartHoldsNothing ==
  [][\A t \in Tasks :
       StartFails(t) =>
         /\ status' = "error"
         /\ HoldsNothingOf(t)'
         /\ LeftNothingOpen(t)']_vars

(***************************************************************************)
(* C4  stop() in any state: afterwards the state is Stopped, the held      *)
(* stream is stopped and its ref null, the held context closed and its ref *)
(* null; a second stop() from the same render changes nothing, and from    *)
(* any render it changes neither the state nor a ref, context, stream or   *)
(* graph.                                                                  *)
(***************************************************************************)
C4_StopFromAnyState ==
  \A isRec \in BOOLEAN :
    LET e == stop(Eng, isRec)
    IN /\ e.status = "stopped"
       /\ e.mediaStreamRef = Null
       /\ mediaStreamRef # Null => e.streamState[mediaStreamRef] = "stopped"
       /\ e.audioContextRef = Null
       /\ audioContextRef # Null => e.ctxState[audioContextRef] = "closed"
       /\ stop(e, isRec) = e
       /\ \A isRec2 \in BOOLEAN :
            [stop(e, isRec2) EXCEPT !.isRecording = e.isRecording,
                                    !.recState = e.recState, !.rec = e.rec] = e

\* stop() has run while a start was in flight, and that start's stream has
\* since been installed.
C4_Witness ==
  /\ status = "error"
  /\ mediaStreamRef # Null /\ streamState[mediaStreamRef] = "live"
  /\ audioContextRef = Null
  /\ \E t \in Tasks : ctxState[t] = "closed"

(***************************************************************************)
(* C5  While Running, a new value of an effect toggle, of the input or     *)
(* output device or of the latency makes restartAudio stop the engine and  *)
(* schedule a start with the new controls; the graph that this start       *)
(* installs is complete and every ref it assigns holds a node of this      *)
(* build, none of an earlier one.                                          *)
(***************************************************************************)
C5_StructuralChangeRebuilds ==
  [][/\ (status = "running" /\ cfg' # cfg) =>
          /\ status' = "stopped"
          /\ audioContextRef' = Null /\ mediaStreamRef' = Null /\ sourceNodeRef' = Null
          /\ \E t \in Tasks : RestartBegins(t) /\ tasks'[t].c = cfg'
     /\ \A t \in Tasks :
          (tasks[t].kind = "restart" /\ StartSucceeds(t)) =>
            /\ graph[t] = NoGraph
            /\ \A r \in NodeRefNames : nodeRefs[r] # t
            /\ graph'[t].done = NStages
            /\ graph'[t].flags = FlagsOf(tasks[t].c)
            /\ sourceNodeRef' = t
            /\ \A i \in 1..NStages :
                 \A r \in StageRefs(StageOrder[i], graph'[t].flags) : nodeRefs'[r] = t]_vars

\* A restart has installed its graph, after the graph of an earlier start.
C5_Witness ==
  /\ status = "running"
  /\ \E t, u \in Tasks :
       /\ tasks[t].kind = "restart" /\ tasks[t].pc = "done"
       /\ sourceNodeRef = t /\ nodeRefs["eqNodesRef"] = t
       /\ u # t /\ graph[u].done = NStages

(***************************************************************************)
(* C6  While the engine is Running, a new value of a continuous control    *)
(* (gain, drive, band gain, frequency or Q, post-gain, compressor          *)
(* threshold, knee, ratio, attack or release, delay time, delay feedback,  *)
(* pan, reverb mix, noise-gate threshold or release) is a hot update: the  *)
(* value is written into the node of the installed graph (for the noise    *)
(* gate, into the ref its processor reads), no stop or start occurs, the   *)
(* state stays Running and every node identity is unchanged.               *)
(***************************************************************************)
C6_HotUpdate ==
  [][(/\ status = "running"
      /\ \/ eqHeap' # eqHeap
         \/ \E p \in {"gain", "drive", "postGain", "compressor", "delay", "panner",
                       "noiseGate", "reverb", "eqBands"} : cfg'[p] # cfg[p]) =>
       LET t == sourceNodeRef
           fl == graph[t].flags
           c == cfg'
           b == eqHeap'[c.eqBands]
           v == nodeVals'[t]
       IN /\ status' = "running"
          /\ UNCHANGED <<tasks, audioContextRef, mediaStreamRef, sourceNodeRef,
                         mediaRecorderRef, nodeRefs, graph, ctxState, streamState,
                         recState, isRecording, playbackState>>
          /\ \A i \in 1..NStages :
               \A r \in StageRefs(StageOrder[i], fl) : nodeRefs[r] = t
          /\ c.gain # cfg.gain => v.gain = c.gain
          /\ c.drive # cfg.drive => v.curve = c.drive * 50
          /\ c.postGain # cfg.postGain => v.postGain = c.postGain
          /\ (c.compressor # cfg.compressor /\ "compressorEnabled" \in fl) =>
               /\ v.compressor.threshold = c.compressor.threshold
               /\ v.compressor.knee = c.compressor.knee
               /\ v.compressor.ratio = c.compressor.ratio
               /\ v.compressor.attack = c.compressor.attack
               /\ v.compressor.release = c.compressor.release
          /\ (c.delay.time # cfg.delay.time /\ "delayEnabled" \in fl) =>
               v.delayTime = c.delay.time
          /\ (c.delay.feedback # cfg.delay.feedback /\ "delayEnabled" \in fl) =>
               v.feedback = c.delay.feedback
          /\ c.panner # cfg.panner => v.pan = c.panner.pan
          /\ (c.reverb # cfg.reverb /\ "reverbEnabled" \in fl) =>
               v.wet = c.reverb.mix /\ v.dry = 100 - c.reverb.mix
          /\ c.noiseGate # cfg.noiseGate => noiseGateRef' = c.noiseGate
          /\ (c.eqBands # cfg.eqBands \/ eqHeap' # eqHeap) =>
               \A i \in 1..Len(b) :
                 /\ v.eq[i].gain = b[i].gain
                 /\ v.eq[i].frequency = b[i].freq
                 /\ b[i].q # 0 => v.eq[i].Q = b[i].q]_vars

\* The compressor ratio was moved after the engine had become Running, and
\* the compressor of the installed graph has the new ratio.
C6_Witness ==
  /\ status = "running"
  /\ "compressorEnabled" \in graph[sourceNodeRef].flags
  /\ msClosure.cfg.compressor.ratio # cfg.compressor.ratio
  /\ nodeVals[sourceNodeRef].compressor.ratio = cfg.compressor.ratio

(***************************************************************************)
(* C7  Every build wires the stages in the fixed order source, [noise      *)
(* gate], gain, drive, [compressor], EQ sub, bass, mid, upperMid, treble,  *)
(* post-gain, [delay+feedback], panner, [reverb dry/wet split and remix,   *)
(* else passthrough], analyzer tap, sink: the input of each stage is the   *)
(* output of the nearest preceding stage that is present, and the sink is  *)
(* fed through the analyzer tap.                                           *)
(***************************************************************************)
C7_SinkThroughAnalyzer ==
  status = "running" =>
    LET N == GraphNodes(graph[sourceNodeRef])
        E == GraphEdges(graph[sourceNodeRef])
        In(n) == {ed[1] : ed \in {x \in E : x[2] = n}}
        Chain == <<"noiseGate", "gain", "drive", "compressor", "eq_sub", "eq_bass",
                   "eq_mid", "eq_upperMid", "eq_treble", "postGain", "delay", "panner">>
        P == SelectSeq(Chain, LAMBDA n : n \in N)
    IN /\ \A i \in 1..Len(P) :
            In(P[i]) = {IF i = 1 THEN "source" ELSE P[i - 1]}
                         \cup (IF P[i] = "delay" THEN {"feedback"} ELSE {})
       /\ P[Len(P)] = "panner"
       /\ In("finalMixer") = IF "reverb" \in N THEN {"reverbDry", "reverbWet"} ELSE {"panner"}
       /\ "reverb" \in N =>
            In("reverbDry") = {"panner"} /\ In("reverb") = {"panner"} /\ In("reverbWet") = {"reverb"}
       /\ In("analyser") = {"finalMixer"}
       /\ In("destination") = {"analyser"}

\* C7 as amended: the same order up to the final mixer; the analyzer is a
\* side branch of the final mixer with no output, and the sink is fed by the
\* final mixer itself and, when the noise gate is present, by the script
\* processor of the gate's detector, which hangs off the gate's input.
C7_FixedStageOrder ==
  status = "running" =>
    LET N == GraphNodes(graph[sourceNodeRef])
        E == GraphEdges(graph[sourceNodeRef])
        In(n) == {ed[1] : ed \in {x \in E : x[2] = n}}
        Out(n) == {ed[2] : ed \in {x \in E : x[1] = n}}
        Chain == <<"noiseGate", "gain", "drive", "compressor", "eq_sub", "eq_bass",
                   "eq_mid", "eq_upperMid", "eq_treble", "postGain", "delay", "panner">>
        P == SelectSeq(Chain, LAMBDA n : n \in N)
    IN /\ \A i \in 1..Len(P) :
            In(P[i]) = {IF i = 1 THEN "source" ELSE P[i - 1]}
                         \cup (IF P[i] = "delay" THEN {"feedback"} ELSE {})
       /\ P[Len(P)] = "panner"
       /\ In("finalMixer") = IF "reverb" \in N THEN {"reverbDry", "reverbWet"} ELSE {"panner"}
       /\ "reverb" \in N =>
            In("reverbDry") = {"panner"} /\ In("reverb") = {"panner"} /\ In("reverbWet") = {"reverb"}
       /\ In("analyser") = {"finalMixer"}
       /\ Out("analyser") = {}
       /\ In("destination") =
            {"finalMixer"} \cup (IF "noiseGate" \in N THEN {"scriptProcessor"} ELSE {})
       /\ "noiseGate" \in N =>
            In("noiseGateAnalyser") = {"source"} /\ In("scriptProcessor") = {"noiseGateAnalyser"}

\* A graph with every optional stage is installed.
C7_Witness ==
  /\ status = "running"
  /\ graph[sourceNodeRef].flags = EffectFlags
  /\ graph[sourceNodeRef].done = NStages

(***************************************************************************)
(* C8  An optional stage (noise gate, compressor, delay, reverb) is in the *)
(* built graph if and only if its flag is set in the controls used for the *)
(* build, and a disabled stage contributes no node, not even a             *)
(* pass-through: the graph consists of the nodes of the stages that are    *)
(* always present and of the enabled optional stages.                      *)
(***************************************************************************)
C8_DisabledStageNoNode ==
  [][\A t \in Tasks :
       StartSucceeds(t) =>
         LET c == tasks[t].c
             N == GraphNodes(graph'[t])
             Always == {"gain", "drive", "eq_sub", "eq_bass", "eq_mid", "eq_upperMid",
                        "eq_treble", "postGain", "panner", "analyser"}
             Gate == {"noiseGate", "noiseGateAnalyser", "scriptProcessor"}
             Delay == {"delay", "feedback"}
             Reverb == {"reverbDry", "reverb", "reverbWet", "finalMixer"}
         IN N = Always \cup (IF c.noiseGateEnabled THEN Gate ELSE {})
                       \cup (IF c.compressorEnabled THEN {"compressor"} ELSE {})
                       \cup (IF c.delayEnabled THEN Delay ELSE {})
                       \cup (IF c.reverbEnabled THEN Reverb ELSE {})]_vars

\* C8 as amended: the same, except that the final mixer, a gain node left at
\* its default gain, is made by every build, so that a disabled reverb
\* leaves this one pass-through between the panner and the analyzer and
\* sink.
C8_OptionalStageIffEnabled ==
  [][\A t \in Tasks :
       StartSucceeds(t) =>
         LET c == tasks[t].c
             N == GraphNodes(graph'[t])
             E == GraphEdges(graph'[t])
             Always == {"gain", "drive", "eq_sub", "eq_bass", "eq_mid", "eq_upperMid",
                        "eq_treble", "postGain", "panner", "analyser"}
             Gate == {"noiseGate", "noiseGateAnalyser", "scriptProcessor"}
             Delay == {"delay", "feedback"}
             Reverb == {"reverbDry", "reverb", "reverbWet"}
         IN /\ N = Always \cup {"finalMixer"}
                          \cup (IF c.noiseGateEnabled THEN Gate ELSE {})
                          \cup (IF c.compressorEnabled THEN {"compressor"} ELSE {})
                          \cup (IF c.delayEnabled THEN Delay ELSE {})
                          \cup (IF c.reverbEnabled THEN Reverb ELSE {})
            /\ ~c.reverbEnabled =>
                 /\ <<"panner", "finalMixer">> \in E
                 /\ <<"finalMixer", "analyser">> \in E
                 /\ <<"finalMixer", "destination">> \in E]_vars

\* A graph with some optional stages and without the others is installed.
C8_Witness ==
  /\ status = "running"
  /\ graph[sourceNodeRef].done = NStages
  /\ graph[sourceNodeRef].flags = {"compressorEnabled", "noiseGateEnabled"}

(***************************************************************************)
(* C9  restartAudio called while the state is Stopped or Error does        *)
(* nothing: no stop, no timer, no start, and the state and every ref stay  *)
(* as they are.                                                            *)
(***************************************************************************)
C9_RestartOnlyFromRunning ==
  [][(status # "running" /\ cfg' # cfg) =>
       UNCHANGED <<status, isRecording, playbackState, audioContextRef,
                   mediaStreamRef, sourceNodeRef, mediaRecorderRef, nodeRefs,
                   ctxState, streamState, recState, graph, tasks, staleStarts>>]_vars

\* Controls were changed, in Error, and no restart was ever made.
C9_Witness ==
  /\ status = "error"
  /\ edits > 0
  /\ \A t \in Tasks : tasks[t].kind # "restart"

(***************************************************************************)
(* C10  restartAudio from Running: stop(), then the 50 ms timer, then      *)
(* start().  The restart makes no context and opens no stream before its   *)
(* stop() has released what was held and its timer has run out.            *)
(***************************************************************************)
C10_StopSettleStart ==
  [][\A t \in Tasks :
       /\ RestartBegins(t) =>
            /\ status = "running" /\ status' = "stopped"
            /\ audioContextRef' = Null /\ mediaStreamRef' = Null
            /\ audioContextRef # Null => ctxState'[audioContextRef] = "closed"
            /\ mediaStreamRef # Null => streamState'[mediaStreamRef] = "stopped"
            /\ tasks'[t].settleLeft = SettleDelayMs
       /\ tasks'[t].pc = "settle" => ctxState'[t] = "none" /\ streamState'[t] = "none"
       /\ (tasks[t].kind = "restart" /\ StartBegins(t)) =>
            tasks[t].pc = "settle" /\ tasks[t].settleLeft = 0]_vars

\* The start of a restart has made its context.
C10_Witness ==
  \E t \in Tasks : tasks[t].kind = "restart" /\ tasks[t].pc = "gum" /\ ctxState[t] = "open"

(***************************************************************************)
(* C11  Nothing retries automatically: while the engine is in Error no     *)
(* start begins unless a handler calls start() in that step (the round     *)
(* button or the media-session play action), and a change of a control     *)
(* made in Error starts nothing.                                           *)
(***************************************************************************)
C11_NoStartInErrorUnlessRequested ==
  [][/\ \A t \in Tasks :
          (status = "error" /\ StartBegins(t)) => tasks[t].pc = "unused"
     /\ (status = "error" /\ cfg' # cfg) =>
          /\ tasks' = tasks
          /\ ctxState' = ctxState]_vars

(***************************************************************************)
(* C12  When connectNodes throws during a start (the start of a restart    *)
(* included), the engine ends in Stopped, not in Error.                    *)
(***************************************************************************)
\* In this step connectNodes, called by start number t, throws after some
\* of its stages.
BuildFails(t) ==
  /\ tasks[t].pc = "gum" /\ tasks'[t].pc = "failed"
  /\ graph'[t].ctx # Null /\ graph'[t].done < NStages

C12_BuildFailureEndsStopped ==
  [][\A t \in Tasks : BuildFails(t) => status' = "stopped"]_vars

(***************************************************************************)
(* The capture device is unplugged                                         *)
(***************************************************************************)
\* The device the held stream captures from goes away while the engine is
\* running: the track of the stream ends (no handler is registered on the
\* track or the stream), and the devicechange listener runs
\* enumerateDevices.  listed: the new list has an input whose deviceId is
\* selectedInput.  When it has not, setSelectedInput('default') is called,
\* which changes the state only when another device was selected; the
\* render that follows runs the restart effect.
DeviceDisconnected ==
  /\ status = "running"
  /\ mediaStreamRef # Null /\ streamState[mediaStreamRef] = "live"
  /\ \E listed \in BOOLEAN :
       IF ~listed /\ cfg.selectedInput # "default"
       THEN /\ restartAudio([cfg EXCEPT !.selectedInput = "default"])
            /\ UNCHANGED edits
       ELSE /\ streamState' = [streamState EXCEPT ![mediaStreamRef] = "ended"]
            /\ UNCHANGED <<status, isRecording, cfg, hasOutputSelection, playbackState,
                           audioContextRef, mediaStreamRef, sourceNodeRef,
                           mediaRecorderRef, nodeRefs, ctxState, recState, graph,
                           tasks, msClosure, staleStarts, edits, nodeVals,
                           noiseGateRef, eqHeap, hotEdits, analyserNode, db,
                           rec, karaoke>>

NextDevice ==
  \/ handleStartStop
  \/ SetSelectedInput
  \/ Tick
  \/ RestartStart
  \/ GumSettles
  \/ DeviceDisconnected

SpecDevice == Init /\ [][NextDevice]_vars

(***************************************************************************)
(* C13  When the capture device is disconnected while the engine is        *)
(* Running, the engine goes to Error and rendering stops.                  *)
(***************************************************************************)
C13_DisconnectLeadsToError ==
  [][DeviceDisconnected => status' = "error"]_vars

(***************************************************************************)
(* C14  A change that carries an invalid value (here a Q outside           *)
(* [0.1, 20] typed into the Q number input) is rejected: the band keeps    *)
(* its value and nothing is written, neither to the controls nor to a      *)
(* node.                                                                   *)
(***************************************************************************)
InvalidQ(val) == val < 10 \/ val > 2000

C14_InvalidValueRejected ==
  [][\A typed \in QTypedValues :
       (InvalidQ(typed) /\ QNumberInputOf(typed)) =>
          /\ cfg' = cfg
          /\ eqHeap' = eqHeap
          /\ nodeVals' = nodeVals]_vars

(***************************************************************************)
(* C15  The delay feedback held in the controls, and the gain of the       *)
(* feedback node of every graph built, always lie within [0, 0.95].        *)
(***************************************************************************)
C15_FeedbackBounded ==
  /\ cfg.delay.feedback \in 0..95
  /\ \A t \in Tasks :
       nodeVals[t].feedback # NoValue => nodeVals[t].feedback \in 0..95

\* The slider is at its maximum and the installed feedback node has it.
C15_Witness ==
  /\ status = "running"
  /\ cfg.delay.feedback = 95
  /\ nodeRefs["feedbackNodeRef"] # Null
  /\ nodeVals[nodeRefs["feedbackNodeRef"]].feedback = 95

(***************************************************************************)
(* C16  Two builds from the same controls give graphs with the same stage  *)
(* ordering and the same parameter values on every stage.                  *)
(*                                                                         *)
(* Under SpecGraph the controls differ between two builds of a behaviour   *)
(* at most in the toggles (and the output device, which connectNodes does  *)
(* not read), so two builds with the same toggles are builds from the same *)
(* controls.  impulse stands for the buffer a build fills from             *)
(* Math.random: two builds draw their samples independently, and the       *)
(* buffers are taken as different.                                         *)
(***************************************************************************)
\* connectNodes, called by start number t, ran to its end.
Complete(t) == graph[t].ctx # Null /\ graph[t].done = NStages
\* The parameter values without the impulse response of the convolver.
WithoutImpulse(v) == [v EXCEPT !.impulse = NoValue]

Ratio(n, d) ==
  LET r1 == n % d
      r2 == (r1 * 100) % d
  IN (n \div d) * 10000 + ((r1 * 100) \div d) * 100 + ((r2 * 100) \div d)

\* curve[i] of the table made with `k = drive * 50`; k is the value of
\* makeCurve, so the drive in hundredths is k / 50.  With x = (i - 128)/128
\* and 20 * deg = pi/9,
\*   ((3 + k) * x * 20 * deg) / (pi + k * |x|)
\*     = ((6 + D) * X * 355) / (9 * (90880 + 113 * D * |X|)),
\* D the drive in hundredths and X = i - 128.
curve(k, i) ==
  LET D == k \div 50
      X == i - (CurveSize \div 2)
      ax == IF X < 0 THEN -X ELSE X
      mag == Ratio((6 + D) * ax * 355, 9 * (90880 + 113 * D * ax))
  IN IF X < 0 THEN -mag ELSE mag

\* The WaveShaperNode with this curve, applied to the sample v: the input
\* range [-1, 1] is laid over the table, entries are interpolated linearly,
\* and an input outside the range takes the first or the last entry.
waveShaper(k, v) ==
  IF v <= -10000 THEN curve(k, 0)
  ELSE IF v >= 10000 THEN curve(k, CurveSize - 1)
  ELSE LET p == (CurveSize - 1) * (v + 10000)
           idx == p \div 20000
           f == p % 20000
       IN curve(k, idx) + ((curve(k, idx + 1) - curve(k, idx)) * f) \div 20000

\* The output sample of a chain without optional stage whose EQ bands all
\* have gain 0 dB (each filter is then the identity) and whose pan is 0,
\* for the input sample s: gain, drive, post-gain.
outputSample(v, s) ==
  (v.postGain * waveShaper(v.curve, (v.gain * s) \div 100)) \div 100

\* Input samples: -0.3, -0.1, 0, 0.1, 0.3, 0.5.
InputSamples == {-3000, -1000, 0, 1000, 3000, 5000}
\* One unit of the sample scale.
SampleTolerance == 1

\* The positions of the Gain and Drive sliders before the first start.
CurveGains == {100, 200}
CurveDrives == {0, 1, 50, 100}

InitCurve ==
  \E g \in CurveGains, dr \in CurveDrives :
    InitWith([InitCfg EXCEPT !.gain = g, !.drive = dr])

NextCurve ==
  \/ handleStartStop
  \/ GumSettles
  \/ SetGain
  \/ SetDrive

SpecCurve == InitCurve /\ [][NextCurve]_vars

(***************************************************************************)
(* C17  With gain 2, drive 0, flat EQ, post-gain 1 and no optional stage   *)
(* every output sample is the input sample times 2, within tolerance.      *)
(***************************************************************************)
\* The installed graph is the one of the scenario.
GainTwoDriveZero(t) ==
  /\ status = "running" /\ nodeRefs["gainNodeRef"] = t /\ nodeRefs["driveNodeRef"] = t
  /\ Complete(t) /\ graph[t].flags = {}
  /\ nodeVals[t].gain = 200
  /\ nodeVals[t].curve = makeCurve(0)
  /\ \A b \in 1..Len(nodeVals[t].eq) : nodeVals[t].eq[b].gain = 0
  /\ nodeVals[t].postGain = 100
  /\ nodeVals[t].pan = 0

C17_OutputIsInputTimesTwo ==
  \A t \in Tasks :
    GainTwoDriveZero(t) =>
      \A s \in InputSamples :
        LET diff == outputSample(nodeVals[t], s) - 2 * s
        IN diff <= SampleTolerance /\ -diff <= SampleTolerance

(***************************************************************************)
(* C18  Every drive curve that is installed is odd-symmetric:              *)
(* curve[N-1-i] = -curve[i] within tolerance for every i in [0, N).        *)
(***************************************************************************)
C18_CurveOddSymmetric ==
  \A t \in Tasks :
    nodeVals[t].curve # NoValue =>
      \A i \in 0..(CurveSize - 1) :
        LET sum == curve(nodeVals[t].curve, CurveSize - 1 - i) + curve(nodeVals[t].curve, i)
        IN sum <= SampleTolerance /\ -sum <= SampleTolerance

(***************************************************************************)
(* C19  The reverb stage of every graph has dry gain = 1 - mix and wet     *)
(* gain = mix with 0 <= mix <= 1, mix being the value the build took from  *)
(* its controls or the value of the last mix update written into the       *)
(* stage; with mix = 0 the output of the stage is its input, as without    *)
(* the reverb, and with mix = 1 it is the convolved signal alone.          *)
(***************************************************************************)
\* What the final mixer gets from the reverb stage for the input sample x
\* whose convolved sample is w: the dry path and the wet path, summed.
reverbOut(v, x, w) == (v.dry * x + v.wet * w) \div 100
\* What the final mixer gets when the reverb is disabled.
bypassOut(x) == x
\* Samples out of the convolver.
WetSamples == {-2500, 0, 4000}

\* connectNodes, called by start number t, builds the reverb stage in this
\* step.
BuildsReverb(t) ==
  /\ tasks[t].pc = "gum" /\ nodeVals'[t].wet # NoValue

ReverbMixed ==
  \A t \in Tasks :
    nodeVals[t].wet # NoValue =>
      /\ nodeVals[t].wet \in 0..100
      /\ nodeVals[t].dry = 100 - nodeVals[t].wet
      /\ \A x \in InputSamples, w \in WetSamples :
           /\ nodeVals[t].wet = 0 => reverbOut(nodeVals[t], x, w) = bypassOut(x)
           /\ nodeVals[t].wet = 100 => reverbOut(nodeVals[t], x, w) = w

C19_ReverbDryWet ==
  [][/\ ReverbMixed'
     /\ \A t \in Tasks :
          BuildsReverb(t) => nodeVals'[t].wet = tasks[t].c.reverb.mix
     /\ (SetReverb /\ nodeRefs["reverbDryGainRef"] # Null
                   /\ nodeRefs["reverbWetGainRef"] # Null) =>
          /\ nodeVals'[nodeRefs["reverbWetGainRef"]].wet = cfg'.reverb.mix
          /\ nodeVals'[nodeRefs["reverbDryGainRef"]].dry = 100 - cfg'.reverb.mix]_vars

\* Running with the reverb installed and the Mix slider moved to 0.
C19_Witness ==
  /\ status = "running" /\ hotEdits > 0
  /\ cfg.reverbEnabled /\ cfg.reverb.mix = 0
  /\ nodeRefs["reverbWetGainRef"] # Null
  /\ nodeRefs["reverbWetGainRef"] = nodeRefs["analyserNodeRef"]
  /\ nodeVals[nodeRefs["reverbWetGainRef"]].wet = 0
  /\ nodeVals[nodeRefs["reverbDryGainRef"]].dry = 100

(***************************************************************************)
(* The block callback of the noise gate                                    *)
(***************************************************************************)
\* The level of a block, 20 * log10(rms), in dB: `rms > thresholdValue`
\* with thresholdValue = 10^(threshold / 20) is `level > threshold`.
RmsLevels == {-50, -40, -20}

\* The callback with a slip: the threshold is the one of the first render
\* instead of the one in noiseGateRef.
gateCallbackStaleThreshold(ng, level) ==
  IF level > InitCfg.noiseGate.threshold
  THEN [target |-> 100, time |-> 1]
  ELSE [target |-> 0, time |-> ng.release]

\* The callback with a slip: the comparison is rms >= thresholdValue.
gateCallbackOpensAtThreshold(ng, level) ==
  IF level >= ng.threshold
  THEN [target |-> 100, time |-> 1]
  ELSE [target |-> 0, time |-> ng.release]

\* The callback with a slip: the gate opens with the release time.
gateCallbackSlowAttack(ng, level) ==
  IF level > ng.threshold
  THEN [target |-> 100, time |-> ng.release]
  ELSE [target |-> 0, time |-> ng.release]

\* The body of onaudioprocess after `const { threshold, release } =
\* noiseGateRef.current`, ng being that object: the target and the time
\* constant handed to setTargetAtTime.
gateCallback(ng, level) ==
  IF level > ng.threshold
  THEN [target |-> 100, time |-> 1]
  ELSE [target |-> 0, time |-> ng.release]

\* onaudioprocess of the script processor of graph t for a block of the
\* given level.  The processor gets blocks while it is connected and its
\* context is open; the callback returns at once unless the three refs it
\* reads are set, and it writes to the gate node that noiseGateNodeRef
\* holds now.
onaudioprocessOf(t, level) ==
  /\ graph[t].ctx # Null /\ graph[t].spConnected
  /\ ctxState[graph[t].ctx] = "open"
  /\ nodeRefs["noiseGateNodeRef"] # Null
  /\ nodeRefs["noiseGateAnalyserNodeRef"] # Null
  /\ audioContextRef # Null
  /\ LET set == gateCallback(noiseGateRef, level)
     IN nodeVals' = [nodeVals EXCEPT ![nodeRefs["noiseGateNodeRef"]] =
                       [@ EXCEPT !.gateTarget = set.target, !.gateTime = set.time]]
  /\ UNCHANGED <<status, isRecording, cfg, hasOutputSelection, playbackState,
                 audioContextRef, mediaStreamRef, sourceNodeRef, mediaRecorderRef,
                 nodeRefs, ctxState, streamState, recState, graph, tasks, msClosure,
                 staleStarts, edits, noiseGateRef, eqHeap, hotEdits, analyserNode, db,
                 rec, karaoke>>

onaudioprocess == \E t \in Tasks, level \in RmsLevels : onaudioprocessOf(t, level)

InitGate == InitWith(WithFlags(InitCfg, {"noiseGateEnabled"}))

NextGate ==
  \/ handleStartStop
  \/ GumSettles
  \/ SetNoiseGate
  \/ onaudioprocess

SpecGate == InitGate /\ [][NextGate]_vars

RECURSIVE ExpTerm(_, _)
ExpTerm(x, j) == IF j = 0 THEN 10000 ELSE (ExpTerm(x, j - 1) * x) \div (j * 10000)

\* exp(-x) for x >= 0, x and the result in units of 1/10000; 3679 is
\* exp(-1).
RECURSIVE ExpNeg(_)
ExpNeg(x) ==
  IF x >= 10000 THEN (3679 * ExpNeg(x - 10000)) \div 10000
  ELSE ExpTerm(x, 0) - ExpTerm(x, 1) + ExpTerm(x, 2) - ExpTerm(x, 3) + ExpTerm(x, 4)
         - ExpTerm(x, 5) + ExpTerm(x, 6) - ExpTerm(x, 7) + ExpTerm(x, 8)

\* The number of blocks that span the duration dur: the least n with
\* n * 256 / 44100 >= dur.
BlocksSpanning(dur) ==
  ((dur * (SampleRate \div 100)) + BlockFrames - 1) \div BlockFrames

\* The gain n blocks after it was g, when every callback of these blocks
\* called setTargetAtTime(target, currentTime, tau): the gain approaches
\* the target as target + (g - target) * exp(-t / tau), and a call that
\* repeats the target and the time constant continues the same curve.
gateGainAfter(g, target, tau, n) ==
  LET elapsed == Ratio(n * BlockFrames * 100, SampleRate * tau)
  IN target * 100 + ((g - target * 100) * ExpNeg(elapsed)) \div 10000

\* 0.01: a gain below it counts as 0, a gain above 1 - 0.01 as open.
GateTolerance == 100

\* The gate, closed, opens within five attack times.
GateOpens(v) ==
  v.gateTarget = 100 =>
    gateGainAfter(0, v.gateTarget, v.gateTime, BlocksSpanning(5 * AttackTime))
      > 10000 - GateTolerance

(***************************************************************************)
(* C21  While the level stays below the threshold for blocks that span the *)
(* release time, the gain of the gate goes to 0 within tolerance; while it *)
(* stays above the threshold, the gain exceeds 0.99 within 5 times the     *)
(* attack time of 0.01 s.                                                  *)
(***************************************************************************)
C21_GateConverges ==
  \A t \in Tasks :
    /\ nodeVals[t].gateTarget = 0 =>
         gateGainAfter(10000, 0, nodeVals[t].gateTime,
                       BlocksSpanning(nodeVals[t].gateTime)) <= GateTolerance
    /\ GateOpens(nodeVals[t])

\* As C21, with the blocks spanning 5 times the release time.
C21_GateConvergesInFiveReleaseTimes ==
  \A t \in Tasks :
    /\ nodeVals[t].gateTarget = 0 =>
         gateGainAfter(10000, 0, nodeVals[t].gateTime,
                       BlocksSpanning(5 * nodeVals[t].gateTime)) <= GateTolerance
    /\ GateOpens(nodeVals[t])

\* A callback closed the gate of the installed graph with the release time
\* of the first render, and a callback opened the gate of another graph.
C21_Witness ==
  /\ status = "running"
  /\ nodeRefs["noiseGateNodeRef"] # Null
  /\ nodeVals[nodeRefs["noiseGateNodeRef"]].gateTarget = 0
  /\ nodeVals[nodeRefs["noiseGateNodeRef"]].gateTime = InitCfg.noiseGate.release
  /\ \E u \in Tasks : nodeVals[u].gateTarget = 100

\* ---------------------------------------------------------------------------
\* The visualizer.  App renders <AudioVisualizer analyserNode=
\* {analyserNodeRef.current}>: the prop is the ref as it was at the last render
\* of App.  The drawing effect (deps [analyserNode, style]) returns at once
\* when the prop is null; otherwise draw() requests a frame in every frame,
\* and the cleanup, which runs when the prop changes, cancels the pending one.

\* Another piece of App's state changes (the device lists of
\* enumerateDevices, the recordings list): App renders again and no effect of
\* the engine has a changed dependency.
Rerender ==
  /\ analyserNode' = nodeRefs["analyserNodeRef"]
  /\ UNCHANGED <<status, isRecording, cfg, hasOutputSelection, playbackState,
                 audioContextRef, mediaStreamRef, sourceNodeRef, mediaRecorderRef,
                 nodeRefs, ctxState, streamState, recState, graph, tasks, msClosure,
                 staleStarts, edits, nodeVals, noiseGateRef, eqHeap, hotEdits, db,
                 rec, karaoke>>

\* A frame callback of draw() is pending.
FramePending == analyserNode # Null

NextVis ==
  \/ handleStartStop
  \/ MediaSessionPlay
  \/ MediaSessionPause
  \/ GumSettles
  \/ handleRecord
  \/ Rerender

SpecVis == Init /\ [][NextVis]_vars

\* C22: when the engine is Stopped, in Error or was never started, no analyzer
\* tap is attached and the visualization loop has no frame callback scheduled.
C22_NoFramesUnlessRunning ==
  status \in {"stopped", "error"} => ~FramePending

\* ---------------------------------------------------------------------------
\* The recordings database (src/db.ts) and the list App loads from it.

MaxRecordings == 3
MaxDeletes == 3
Dates == {1, 2}
Blobs == {"a", "b"}

engineVars ==
  <<status, isRecording, cfg, hasOutputSelection, playbackState,
    audioContextRef, mediaStreamRef, sourceNodeRef, mediaRecorderRef,
    nodeRefs, ctxState, streamState, recState, graph, tasks, msClosure,
    staleStarts, edits, nodeVals, noiseGateRef, eqHeap, hotEdits, analyserNode,
    rec, karaoke>>

\* store.openCursor(null, direction): the cursor starts at the greatest key
\* ('prev') or the least one ('next') and walks on from there; each
\* onsuccess pushes cursor.value and calls cursor.continue().
RECURSIVE openCursor(_, _)
openCursor(store, direction) ==
  IF store = {} THEN <<>>
  ELSE LET r == CHOOSE x \in store :
                  \A y \in store : IF direction = "prev" THEN y.id <= x.id
                                                          ELSE x.id <= y.id
       IN <<r>> \o openCursor(store \ {r}, direction)

\* A slip: the cursor is opened with 'next'.
getAllRecordingsAscending(store) == openCursor(store, "next")

getAllRecordings(store) == openCursor(store, "prev")

\* A slip: the request clears the store.
deleteRecordingClears(store, id) == {}

\* store.delete(id): the record with key id goes, if there is one.
deleteRecording(store, id) == {r \in store : r.id # id}

\* The mount effect: indexedDB.open succeeds, the upgrade creates the store on
\* the first visit, and loadRecordings is called.  (When the open fails the
\* promise rejects and nothing else happens.)
initDB ==
  /\ ~db.open
  /\ db' = [db EXCEPT !.open = TRUE, !.pending = @ + 1]
  /\ UNCHANGED engineVars

\* The recorder's onstop handler: addRecording(blob) stores {date, blob} under
\* the next key of the key generator, then loadRecordings is called.  Without
\* an open database addRecording rejects and the handler ends.
addRecording ==
  /\ db.open
  /\ db.keyGen < MaxRecordings
  /\ \E date \in Dates, blob \in Blobs :
       LET recording == [id |-> db.keyGen + 1, date |-> date, blob |-> blob]
       IN db' = [db EXCEPT !.store = @ \cup {recording}, !.keyGen = @ + 1,
                           !.log = Append(@, recording), !.pending = @ + 1]
  /\ UNCHANGED engineVars

\* The delete button of a row of the list: deleteRecording(rec.id), then
\* loadRecordings is called.
handleDeleteRecording ==
  /\ Len(db.deleteCalls) < MaxDeletes
  /\ \E i \in 1..Len(db.recordings) :
       LET id == db.recordings[i].id
       IN db' = [db EXCEPT !.store = deleteRecording(@, id),
                           !.deleteCalls = Append(@, id), !.pending = @ + 1]
  /\ UNCHANGED engineVars

\* The cursor of a loadRecordings call ends: setRecordings(recs).
loadRecordings ==
  /\ db.pending > 0
  /\ db' = [db EXCEPT !.recordings = getAllRecordings(db.store), !.pending = @ - 1]
  /\ UNCHANGED engineVars

NextDb ==
  \/ initDB
  \/ addRecording
  \/ handleDeleteRecording
  \/ loadRecordings

SpecDb == Init /\ [][NextDb]_vars

\* The records that were added and not deleted since, newest first.
RECURSIVE Reverse(_)
Reverse(q) == IF q = <<>> THEN <<>> ELSE Append(Reverse(Tail(q)), Head(q))

Survivors ==
  LET deleted == {db.deleteCalls[i] : i \in 1..Len(db.deleteCalls)}
      Kept(r) == r.id \notin deleted
  IN Reverse(SelectSeq(db.log, Kept))

\* C23: after any sequence of successful appends and deletes, getAllRecordings
\* yields exactly the surviving recordings, the one added last first.
C23_ListNewestFirst == getAllRecordings(db.store) = Survivors

\* Three recordings were added, one of them was deleted, two are listed.
C23_Witness ==
  /\ Len(db.log) = 3
  /\ Len(db.deleteCalls) = 1
  /\ Len(getAllRecordings(db.store)) = 2

\* A deleteRecording(id) call ran in this step.
Deletes(id) ==
  /\ Len(db'.deleteCalls) = Len(db.deleteCalls) + 1
  /\ db'.deleteCalls[Len(db'.deleteCalls)] = id

\* C24: deleteRecording(id) removes exactly the recording with that id: every
\* other recording keeps its id, date and blob and its place relative to the
\* others, and with an id that is not stored nothing changes.
C24_DeleteRemovesOnlyThat ==
  [][\A id \in 1..MaxRecordings :
       Deletes(id) =>
         LET Other(r) == r.id # id
         IN /\ getAllRecordings(db'.store) = SelectSeq(getAllRecordings(db.store), Other)
            /\ (\A r \in db.store : r.id # id) => db'.store = db.store
            /\ db'.keyGen = db.keyGen]_vars

\* The same id was deleted twice, the second time when it was no longer
\* stored, and another recording is still there.
C24_Witness ==
  /\ Len(db.deleteCalls) = 2
  /\ db.deleteCalls[1] = db.deleteCalls[2]
  /\ db.store # {}

\* ---------------------------------------------------------------------------
\* The media session.  navigator.mediaSession.playbackState is the only thing
\* the engine tells the media session about its state; its values are "none",
\* "paused" and "playing".

\* The playback states that match an engine state: Running is playing,
\* Stopped is paused, and Error is anything but playing.
MatchingStates(st) ==
  CASE st = "running" -> {"playing"}
    [] st = "stopped" -> {"paused"}
    [] OTHER -> {"none", "paused"}

\* C25: every change of the engine state is notified to the media session
\* with the matching state, so after every transition the last notified state
\* matches the engine state.
C25_NotifiedStateMatches ==
  [][status' # status => playbackState' \in MatchingStates(status')]_vars

\* ---------------------------------------------------------------------------
\* The installed graph and the controls.

\* No start() is waiting for the sink or the device and no restartAudio() is
\* in its settle delay.
Quiescent == InFlight = {} /\ Settling = {}

\* C26: whenever the engine is Running and no start or restart is in flight,
\* the optional stages of the installed graph are exactly those whose flag is
\* set in the current Configuration.
C26_StagesMatchFlags ==
  (status = "running" /\ Quiescent /\ sourceNodeRef # Null) =>
    graph[sourceNodeRef].flags = FlagsOf(cfg)

\* C27: whenever the engine is Running and no start or restart is in flight,
\* every parameter of every node of the installed graph has the value the
\* current Configuration gives it.
C27_ParamsMatchControls ==
  (status = "running" /\ Quiescent /\ sourceNodeRef # Null) =>
    LET t == sourceNodeRef
    IN WithoutImpulse(nodeVals[t]) =
         WithoutImpulse(ValsAfter(cfg, eqHeap[cfg.eqBands], graph[t].flags, graph[t].done))

\* C28: every audio context that was ever opened is the one the engine holds
\* or is closed, and every capture stream ever delivered is the one the engine
\* holds or is stopped; so at most one of each is live.
C28_OneLiveContextAndStream ==
  \A t \in Tasks :
    /\ ctxState[t] = "open" => audioContextRef = t
    /\ streamState[t] = "live" => mediaStreamRef = t

\* C29: after stop() the engine holds no handle to any node of the graph it
\* tore down, and no later change of a control writes into a node of a graph
\* whose context is closed.
C29_NoHandleAfterStop ==
  [][/\ StopStep => \A r \in NodeRefNames : nodeRefs'[r] = Null
     /\ \A t \in Tasks : ctxState[t] = "closed" => nodeVals'[t] = nodeVals[t]]_vars

\* Something of the graph of start number t is connected to the sink.
FeedsSink(t) == \E ed \in GraphEdges(graph[t]) : ed[2] = "destination"

\* C30: the installed graph is replaced as a whole: what the render thread of
\* a context runs is no graph or a complete graph, never a graph of which
\* only some stages are built and connected to the sink.
C30_GraphWhole ==
  \A t \in Tasks : (ctxState[t] = "open" /\ FeedsSink(t)) => Complete(t)

\* ---------------------------------------------------------------------------
\* Paths of the built graph.

\* The number of paths from node n to the destination along the edges E that
\* visit no node twice and none of seen.
RECURSIVE PathsFrom(_, _, _)
RECURSIVE PathsVia(_, _, _)
PathsFrom(n, E, seen) ==
  IF n = "destination" THEN 1
  ELSE PathsVia({ed[2] : ed \in {x \in E : x[1] = n /\ x[2] \notin seen}}, E, seen \cup {n})

PathsVia(next, E, seen) ==
  IF next = {} THEN 0
  ELSE LET m == CHOOSE x \in next : TRUE
       IN PathsFrom(m, E, seen) + PathsVia(next \ {m}, E, seen)

\* The edges of a graph without the two exceptions: the connection from the
\* feedback gain back to the delay, and the wet branch of the reverb.
ChainEdges(g) ==
  {ed \in GraphEdges(g) :
     /\ ed # <<"feedback", "delay">>
     /\ ed[2] # "reverb" /\ ed[1] # "reverb" /\ ed[1] # "reverbWet"}

\* The nodes with an edge into the destination.
SinkInputs(g) == {ed[1] : ed \in {x \in GraphEdges(g) : x[2] = "destination"}}

\* C31: in every built graph (of a context that is not closed) there is
\* exactly one path from the source to the
\* sink, apart from the delay feedback loop and the reverb fork, and only one
\* node has an edge into the sink.
C31_OnePathToSink ==
  \A t \in Tasks :
    (Complete(t) /\ ctxState[graph[t].ctx] = "open") =>
      /\ PathsFrom("source", ChainEdges(graph[t]), {}) = 1
      /\ Cardinality(SinkInputs(graph[t])) = 1

\* C31 as amended: the chain is the only path from the source to the sink
\* through the final mixer; with the noise gate there is one more path, from
\* the source through the detector (analyser, script processor) into the
\* sink, for as long as the script processor is connected (stop()
\* disconnects it), and nothing else feeds the sink.
C31_OnePathBesidesDetector ==
  \A t \in Tasks :
    (Complete(t) /\ ctxState[graph[t].ctx] = "open") =>
      LET g == graph[t]
          gate == g.spConnected
          NoDetector == ChainEdges(g) \ {<<"scriptProcessor", "destination">>}
      IN /\ PathsFrom("source", NoDetector, {}) = 1
         /\ PathsFrom("source", ChainEdges(g), {}) = IF gate THEN 2 ELSE 1
         /\ PathsFrom("source", GraphEdges(g), {}) =
              (IF "reverbEnabled" \in g.flags THEN 2 ELSE 1) + (IF gate THEN 1 ELSE 0)
         /\ SinkInputs(g) = {"finalMixer"} \cup (IF gate THEN {"scriptProcessor"} ELSE {})
         /\ gate => "noiseGateEnabled" \in g.flags
         /\ (status = "running" /\ sourceNodeRef = t /\ "noiseGateEnabled" \in g.flags) => gate

\* A graph with the noise gate, the delay and the reverb is running.
C31_Witness ==
  /\ status = "running"
  /\ Complete(sourceNodeRef)
  /\ {"noiseGateEnabled", "delayEnabled", "reverbEnabled"} \subseteq graph[sourceNodeRef].flags
  /\ graph[sourceNodeRef].spConnected

\* C32: when the delay stage is built, the only input of the feedback gain is
\* the output of the delay node and its only output is the input of the
\* delay node; the feedback path feeds no other stage.
C32_FeedbackLoopsIntoDelayOnly ==
  \A t \in Tasks :
    LET E == GraphEdges(graph[t])
    IN "feedback" \in GraphNodes(graph[t]) =>
         /\ {ed[1] : ed \in {x \in E : x[2] = "feedback"}} = {"delay"}
         /\ {ed[2] : ed \in {x \in E : x[1] = "feedback"}} = {"delay"}
         /\ {ed[2] : ed \in {x \in E : x[1] = "delay"}} = {"feedback", "panner"}

\* A graph with the delay stage and the reverb is running.
C32_Witness ==
  /\ status = "running"
  /\ Complete(sourceNodeRef)
  /\ "feedback" \in GraphNodes(graph[sourceNodeRef])
  /\ "reverbEnabled" \in graph[sourceNodeRef].flags

\* ---------------------------------------------------------------------------
\* The order of acquisition and release.

\* What start() has acquired shows in the state in the order of its
\* statements: no stream without the context, no graph without the stream,
\* no recorder without the complete graph.
AcquiredInOrder ==
  \A t \in Tasks :
    /\ streamState[t] # "none" => ctxState[t] # "none"
    /\ graph[t].ctx # Null => streamState[t] # "none"
    /\ recState[t] # "none" => Complete(t)

\* The engine is Running and a recording is under way.
RunningAndRecording ==
  /\ status = "running" /\ isRecording
  /\ mediaRecorderRef # Null /\ recState[mediaRecorderRef] = "recording"

C34_DriveWritesOnlyWhenRunning ==
  [][cfg'.drive # cfg.drive =>
       IF status = "running"
       THEN LET t == nodeRefs["driveNodeRef"]
            IN /\ UNCHANGED <<status, tasks, graph, nodeRefs, sourceNodeRef, audioContextRef,
                              ctxState, streamState>>
               /\ t = sourceNodeRef
               /\ nodeVals' = [nodeVals EXCEPT ![t].curve = cfg'.drive * 50]
       ELSE nodeVals' = nodeVals]_vars

\* The drive was changed while the engine was Running, and the drive node has
\* the curve of the new value, which the build did not give it.
C34_Witness ==
  /\ status = "running" /\ hotEdits = 1
  /\ cfg.drive # InitCfg.drive
  /\ nodeVals[sourceNodeRef].curve = cfg.drive * 50
  /\ tasks[sourceNodeRef].c.drive = InitCfg.drive

\* ---------------------------------------------------------------------------
\* C35: in each block the callback of the noise gate sets the target of the
\* gate gain to 1 with time constant 0.01 s if the RMS of the block is
\* strictly greater than the threshold, and otherwise, also when they are
\* equal, to 0 with the configured release; one target per block, and nothing
\* else is written.
C35_OneTargetPerBlock ==
  [][\A t \in Tasks, level \in RmsLevels :
       onaudioprocessOf(t, level) =>
         LET n == nodeRefs["noiseGateNodeRef"]
             open == [target |-> 100, time |-> AttackTime]
             closed == [target |-> 0, time |-> noiseGateRef.release]
             set == IF level > noiseGateRef.threshold THEN open ELSE closed
         IN nodeVals' = [nodeVals EXCEPT ![n].gateTarget = set.target,
                                         ![n].gateTime = set.time]]_vars

\* A block whose RMS equals the threshold has closed the gate: no slider
\* of the gate was moved, so the threshold was the initial one throughout,
\* and the only level that is not above it is equal to it.
C35_Witness ==
  /\ hotEdits = 0 /\ noiseGateRef = InitCfg.noiseGate
  /\ InitCfg.noiseGate.threshold \in RmsLevels
  /\ \A level \in RmsLevels : level >= InitCfg.noiseGate.threshold
  /\ nodeRefs["noiseGateNodeRef"] # Null
  /\ nodeVals[nodeRefs["noiseGateNodeRef"]].gateTarget = 0
  /\ nodeVals[nodeRefs["noiseGateNodeRef"]].gateTime = noiseGateRef.release

(***************************************************************************)
(* Recordings: the recorder's events and the saves of the onstop handler   *)
(***************************************************************************)
recVars ==
  <<status, isRecording, cfg, hasOutputSelection, playbackState,
    audioContextRef, mediaStreamRef, sourceNodeRef, mediaRecorderRef,
    nodeRefs, ctxState, streamState, graph, tasks, msClosure,
    staleStarts, edits, nodeVals, noiseGateRef, eqHeap, hotEdits, analyserNode,
    karaoke>>

\* The task that the stop of a recorder queued: dataavailable, whose handler
\* pushes the data to recordedChunksRef, then stop, whose handler makes a
\* blob of the chunks and calls addRecording with it.  Without an open
\* database addRecording rejects, and the handler ends with the chunks left
\* in place.
recorderEvents ==
  /\ rec.pending # <<>>
  /\ LET chunks == Append(rec.chunks, Head(rec.pending))
     IN rec' = [rec EXCEPT !.pending = Tail(@), !.chunks = chunks,
                           !.saving = IF db.open THEN Append(@, chunks) ELSE @]
  /\ UNCHANGED <<recVars, recState, db>>

\* The request of the oldest addRecording succeeds: the record is in the
\* store, and the onstop handler goes on after its await, empties
\* recordedChunksRef and calls loadRecordings.
onstopResumes ==
  /\ rec.saving # <<>>
  /\ db.keyGen < MaxRecordings
  /\ \E date \in Dates :
       LET recording == [id |-> db.keyGen + 1, date |-> date, blob |-> Head(rec.saving)]
       IN db' = [db EXCEPT !.store = @ \cup {recording}, !.keyGen = @ + 1,
                           !.log = Append(@, recording), !.pending = @ + 1]
  /\ rec' = [rec EXCEPT !.saving = Tail(@), !.chunks = <<>>]
  /\ UNCHANGED <<recVars, recState>>

\* The tracks of the stream a recorder records have all ended: the recorder
\* stops by itself, and its dataavailable and stop events are queued.
tracksEnded ==
  \E r \in Tasks :
    /\ recState[r] \in {"recording", "paused"}
    /\ streamState[r] = "stopped"
    /\ recState' = [recState EXCEPT ![r] = "inactive"]
    /\ rec' = recorderStop(Eng, r)
    /\ UNCHANGED <<recVars, db>>

\* The database is open and the first loadRecordings has ended.
InitRec == InitWithDb(InitCfg, [NoDb EXCEPT !.open = TRUE])

NextRec ==
  \/ handleStartStop
  \/ MediaSessionPause
  \/ GumSettles
  \/ handleRecord
  \/ recorderEvents
  \/ onstopResumes
  \/ tracksEnded
  \/ loadRecordings

SpecRec == InitRec /\ [][NextRec]_vars

\* C36: every recording that was started and stopped results in exactly one
\* stored recording that holds exactly its data, also when the next
\* recording is started or stopped before the one before is saved.
\* SavedBlobs: the blobs handed to addRecording, the stored ones first;
\* Ended: the recordings that have ended and whose events and saves are
\* through.
C36_OneStoredRecordingEach ==
  LET SavedBlobs == [i \in 1..Len(db.log) |-> db.log[i].blob] \o rec.saving
      Ended == IF rec.pending = <<>> /\ rec.saving = <<>>
                  THEN {n \in 1..rec.sessions : \A r \in Tasks : rec.active[r] # n}
                  ELSE {}
  IN /\ \A i \in 1..Len(SavedBlobs) :
          /\ Len(SavedBlobs[i]) = 1
          /\ \A j \in 1..Len(SavedBlobs) : SavedBlobs[i] = SavedBlobs[j] => i = j
     /\ \A n \in Ended : \E i \in 1..Len(db.log) : db.log[i].blob = <<n>>

\* C37: isRecording implies that the engine is running, after any sequence
\* of start, stop, restart, record toggles and media-session actions.
C37_RecordingOnlyWhileRunning == isRecording => status = "running"

(***************************************************************************)
(* The equalizer panel alone: band edits and preset changes                *)
(***************************************************************************)
\* onBandChange of a slider, a step button or a number input of a band.
EqBandEdit ==
  \E inp \in EqInputs :
    /\ eqHeap[cfg.eqBands][inp.index][inp.property] # inp.value
    /\ LET r == eqBandChange(cfg, eqHeap, inp.index, inp.property, inp.value)
       IN HotChangeWithin(MaxEqEdits, r.cfg, r.heap)

\* onPresetChange of the preset select, and the reset button, which calls
\* handlePresetChange('flat').
EqPresetSelect ==
  \E name \in PresetInputs, g \in Gens :
    /\ eqHeap[g] = <<>>
    /\ \A h \in Gens : eqHeap[h] = <<>> => g <= h
    /\ LET r == presetChange(cfg, eqHeap, name, g)
       IN HotChangeWithin(MaxEqEdits, r.cfg, r.heap)

NextEq ==
  \/ EqBandEdit
  \/ EqPresetSelect

SpecEq == Init /\ [][NextEq]_vars

\* C38: whenever currentPreset is not 'custom', the five bands equal the
\* definition of that preset; no band edit alters a stored preset; and
\* with 'flat' selected all gains are 0 at the initial frequencies.
C38_BandsMatchNamedPreset ==
  /\ \A name \in DOMAIN presets : eqHeap[PresetGen[name]] = presets[name]
  /\ cfg.currentPreset # "custom" =>
       /\ cfg.currentPreset \in DOMAIN presets
       /\ eqHeap[cfg.eqBands] = presets[cfg.currentPreset]
  /\ cfg.currentPreset = "flat" =>
       \A i \in 1..Len(initialEqBands) :
         /\ eqHeap[cfg.eqBands][i].gain = 0
         /\ eqHeap[cfg.eqBands][i].freq = initialEqBands[i].freq

\* 'flat' was selected after a band of another preset was edited: the
\* edited array is still there, and the current one is flat.
C38_Witness ==
  /\ cfg.currentPreset = "flat"
  /\ \E g \in Gens :
       /\ g # cfg.eqBands /\ eqHeap[g] # <<>>
       /\ \A name \in DOMAIN presets : eqHeap[g] # presets[name]

(***************************************************************************)
(* Karaoke: the video player and the recording of a performance            *)
(***************************************************************************)
\* The render after a karaoke handler: the engine's effects have no dep
\* that it changed.
KaraokeRender(e, k) ==
  /\ SetEng(e)
  /\ karaoke' = k
  /\ analyserNode' = IF k.status # karaoke.status \/ k.closure # karaoke.closure
                     THEN e.nodeRefs["analyserNodeRef"] ELSE analyserNode
  /\ UNCHANGED <<cfg, hasOutputSelection, msClosure, db, tasks, staleStarts, edits,
                 hotEdits>>

\* handleLoadYoutubeVideo: youtubeVideoId changes, YouTubePlayerView's effect
\* (deps [videoId]) destroys the player it had and makes a new one, whose
\* onStateChange calls the handleYoutubeStateChange of this render.
handleLoadYoutubeVideo ==
  /\ karaoke.events < MaxPlayerEvents
  /\ KaraokeRender(Eng, [karaoke EXCEPT !.closure = karaoke.status, !.player = "UNSTARTED",
                                        !.events = @ + 1])

\* handleKaraokeRecord; its button is enabled with a video loaded and the
\* engine running.  The state changes the player reports after playVideo
\* and pauseVideo find the recorder recording (after start) or inactive
\* (after stop), for which handleYoutubeStateChange has no branch.
handleKaraokeRecord ==
  /\ karaoke.closure # "none"
  /\ status = "running"
  /\ LET r == mediaRecorderRef
     IN IF karaoke.status = "idle"
        THEN IF r # Null /\ recState[r] # "inactive"
             THEN KaraokeRender([Eng EXCEPT !.rec = [@ EXCEPT !.chunks = <<>>]],
                                [karaoke EXCEPT !.player = "PLAYING"])
             ELSE /\ r # Null => rec.sessions < MaxSessions
                  /\ KaraokeRender([Eng EXCEPT !.recState = IF r # Null
                                                            THEN [@ EXCEPT ![r] = "recording"]
                                                            ELSE @,
                                               !.rec = recorderStart(Eng, r)],
                                   [karaoke EXCEPT !.player = "PLAYING",
                                                   !.status = "recording"])
        ELSE KaraokeRender([Eng EXCEPT !.recState = IF r # Null
                                                    THEN [@ EXCEPT ![r] = "inactive"]
                                                    ELSE @,
                                       !.rec = recorderStop(Eng, r)],
                           [karaoke EXCEPT !.player = IF @ = "PLAYING" THEN "PAUSED" ELSE @,
                                           !.status = "idle"])

\* The states the viewer, or the end of the video, puts the player in.
PlayerStates == {"PLAYING", "PAUSED", "ENDED"}

\* handleYoutubeStateChange(state) of the render the player was made in,
\* whose karaokeRecordingStatus is k.closure; the recorder is read from its
\* ref.  Without a recorder the ENDED branch throws at stop().
handleYoutubeStateChange(e, k, state) ==
  LET r == e.mediaRecorderRef
  IN IF k.closure = "recording" /\ r # Null
     THEN IF state = "PAUSED" /\ e.recState[r] = "recording"
          THEN [e |-> [e EXCEPT !.recState[r] = "paused"], status |-> k.status]
          ELSE IF state = "PLAYING" /\ e.recState[r] = "paused"
          THEN [e |-> [e EXCEPT !.recState[r] = "recording"], status |-> k.status]
          ELSE IF state = "ENDED" /\ e.recState[r] # "inactive"
          THEN [e |-> [e EXCEPT !.recState[r] = "inactive", !.rec = recorderStop(e, r)],
                status |-> "idle"]
          ELSE [e |-> e, status |-> k.status]
     ELSE [e |-> e, status |-> k.status]

\* The player reports a change of its state: handleStateChange of
\* YouTubePlayerView hands the name of the state to onStateChange.
PlayerEventOf(state) ==
  /\ karaoke.closure # "none"
  /\ karaoke.events < MaxPlayerEvents
  /\ state # karaoke.player
  /\ state \in {"PAUSED", "ENDED"} => karaoke.player = "PLAYING"
  /\ LET r == handleYoutubeStateChange(Eng, karaoke, state)
     IN KaraokeRender(r.e, [karaoke EXCEPT !.player = state, !.events = @ + 1,
                                           !.status = r.status])

NextKaraoke ==
  \/ handleStartStop
  \/ GumSettles
  \/ handleLoadYoutubeVideo
  \/ handleKaraokeRecord
  \/ \E state \in PlayerStates : PlayerEventOf(state)

SpecKaraoke == Init /\ [][NextKaraoke]_vars

\* C39: while a performance is recorded the recorder follows the player:
\* it is paused when the video is paused, resumed when the video plays
\* again, and when the video ends it is stopped and the karaoke status
\* goes back to idle.
C39_RecorderFollowsVideo ==
  [][\A state \in PlayerStates :
       (/\ PlayerEventOf(state)
        /\ karaoke.status = "recording"
        /\ mediaRecorderRef # Null) =>
         LET r == mediaRecorderRef
         IN /\ (state = "PAUSED" /\ recState[r] = "recording") => recState'[r] = "paused"
            /\ (state = "PLAYING" /\ recState[r] = "paused") => recState'[r] = "recording"
            /\ (state = "ENDED" /\ recState[r] # "inactive") =>
                 (recState'[r] = "inactive" /\ karaoke'.status = "idle")]_vars
====
